---------------------------- MODULE Spec2Model ----------------------------
(***************************************************************************)
(* A model of the payload builder of taiko-reth:                           *)
(*   - default_taiko_payload_builder (crates/payload/taiko/src/builder.rs):*)
(*     the pre-block hooks, the transaction loop over the pool's best      *)
(*     transactions, the is_better_payload check and the block assembly;   *)
(*   - CachedReads / CachedReadsDbMut (crates/payload/builder/src/         *)
(*     database.rs): the read-through cache over a state provider.         *)
(*   - Rollup (bin/reth/src/main.rs): the execution extension's loop over  *)
(*     the chain-state notifications.                                      *)
(*                                                                         *)
(* Spec       is one build attempt.                                        *)
(* SpecFair   is Spec under weak fairness of the builder's own steps.      *)
(* SpecEmpty  is build_empty_payload next to a build attempt over an      *)
(*            empty pool.                                                  *)
(* SpecCache  is a cache driven by an arbitrary sequence of reads and      *)
(*            insert_account calls over an immutable provider.             *)
(* SpecConv   is the conversions between CachedReads and SyncCachedReads.  *)
(* SpecLockstep is a CachedReads and a SyncCachedReads of one chain id    *)
(*            driven by the same operations.                               *)
(* SpecBorrow is the RefCell of the adapter CachedReadsDBRef.              *)
(* SpecReturn is the cache from BuildArguments to the BuildOutcome.        *)
(* SpecWarm   is two attempts on one parent, one with an empty cache and  *)
(*            one with the cache of a previous attempt.                    *)
(* SpecRollup is Rollup::start of the node binary over a stream of        *)
(*            chain-state notifications.                                   *)
(*                                                                         *)
(* Gas quantities are u64 in the source.  The sums the loop forms stay far *)
(* below 2^64 for every value of the model (and for every block a node can *)
(* execute), so they are modelled as naturals.                             *)
(***************************************************************************)
EXTENDS Naturals, Integers, Sequences, FiniteSets

(***************************************************************************)
(* Bounds of the model.                                                    *)
(***************************************************************************)
\* number of transactions the pool's selector holds
MaxTx == 3
\* number of cache operations of one run of SpecCache
MaxOps == 4
\* number of conversions and chain-qualified cache operations of one run of
\* SpecConv
MaxConv == 3
\* number of calls of the adapter's methods of one run of SpecBorrow
MaxCalls == 3

(***************************************************************************)
(* Program constants.                                                      *)
(***************************************************************************)
\* builder.rs:250  blob_tx.blob_gas() is the number of blobs times the gas of
\* one blob (reth_primitives::constants::eip4844::DATA_GAS_PER_BLOB)
DATA_GAS_PER_BLOB == 131072
\* builder.rs:252  the per-block ceiling of blob gas, six blobs
\* (reth_primitives::constants::eip4844::MAX_DATA_GAS_PER_BLOCK)
MAX_DATA_GAS_PER_BLOCK == 786432

(***************************************************************************)
(* Input domains.                                                          *)
(***************************************************************************)
Senders == {"A", "B"}
BlockGasLimits == {35000, 42000}
\* the kinds of pending transaction: gas limit, blob gas (0: not an EIP-4844
\* transaction) and effective_tip_per_gas(base_fee)
TxKinds ==
    { [gas_limit |-> 21000, blob_gas |-> 0,                     tip |-> 2],
      [gas_limit |-> 14000, blob_gas |-> 3 * DATA_GAS_PER_BLOB, tip |-> 1],
      [gas_limit |-> 21000, blob_gas |-> 4 * DATA_GAS_PER_BLOB, tip |-> 2] }
\* the previously best payload: none, or its fees
BestPayloads == {[some |-> FALSE, fees |-> 0], [some |-> TRUE, fees |-> 21000]}

TxIds == 1..MaxTx

VARIABLES
    \* ---- inputs of one build attempt (BuildArguments) ----
    pool,                 \* the pending transactions, in the selector's priority order
    block_gas_limit,      \* initialized_block_env.gas_limit
    best_payload,         \* the previously best payload, if any
    chain_spec,           \* the timestamp-gated rules: cancun, parent_cancun, prague
    cancel,               \* the cancellation flag (set by the job's owner)
    \* ---- state of default_taiko_payload_builder ----
    pc,                   \* position in the function
    best_txs,             \* the selector: yielded, invalid, skip_blobs
    cumulative_gas_used,
    sum_blob_gas_used,
    executed_txs,         \* sequence of transaction ids
    receipts,             \* sequence of [tx, cumulative_gas_used]
    total_fees,
    outcome,              \* "none" | "Cancelled" | "Aborted" | "Better" | "Err"
    steps,                \* the hooks and assembly steps performed, in order
    block,                \* the sealed block of a Better outcome ("none" fields before)
    trail,                \* what each loop iteration saw and did with its candidate
    \* ---- CachedReads over a provider ----
    provider,             \* the immutable state behind the cache
    cached_reads,         \* accounts, contracts, block_hashes
    ret,                  \* the last cache operation, its result, its provider calls
    known,                \* per key, the value read from the provider or seeded
                          \* by insert_account, and per address its latest seed
    nops,                 \* cache operations performed
    \* ---- SyncCachedReads and the conversions ----
    sync_cached_reads,    \* the chain-qualified cache
    conv,                 \* the last conversion and what it was applied to
    \* ---- CachedReadsDBRef: the RefCell around the cache ----
    borrows,              \* live RefMut guards of `inner`
    call,                 \* the adapter call in progress
    \* ---- the cache across one build attempt ----
    attempt,              \* the cache passed in BuildArguments, the provider
                          \* calls made since, the cache the outcome carries
    \* ---- Rollup, the execution extension of the node binary ----
    rollup                \* its position in start(), the notification in hand,
                          \* the calls it made and the events it sent

buildVars == <<pool, block_gas_limit, best_payload, chain_spec, cancel, pc, best_txs,
               cumulative_gas_used, sum_blob_gas_used, executed_txs, receipts,
               total_fees, outcome, steps, block, trail>>
cacheVars == <<provider, cached_reads, ret, known, nops>>
adapterVars == <<sync_cached_reads, conv, borrows, call>>
vars == <<buildVars, cacheVars, adapterVars, attempt, rollup>>

(***************************************************************************)
(* Helpers.                                                                *)
(***************************************************************************)
RECURSIVE SumSeq(_)
SumSeq(s) == IF s = <<>> THEN 0 ELSE Head(s) + SumSeq(Tail(s))

Range(s) == {s[i] : i \in 1..Len(s)}

\* The nonce of the i-th transaction of the pool: the senders' transactions are
\* gapless and the selector ranks a sender's transactions in nonce order.
NonceOf(p, i) == Cardinality({j \in 1..(i - 1) : p[j].sender = p[i].sender})

IsBlob(tx) == tx.blob_gas > 0


(***************************************************************************)
(* The transaction selector (BestTransactions).  `pool` is the sequence of *)
(* pending transactions in the order the selector ranks them; the selector *)
(* state is the set of transactions it has produced, the set passed to     *)
(* mark_invalid and the skip_blobs flag.                                   *)
(***************************************************************************)
NewBestTransactions == [yielded |-> {}, invalid |-> {}, skip_blobs |-> FALSE]

\* a mark_invalid that removes the transaction and leaves its dependents
Removed_OnlyItself(p, sel, i) == i \in sel.invalid

\* i was removed by a mark_invalid of a same-sender transaction of a nonce
\* not higher than its own
Removed(p, sel, i) ==
    \E j \in sel.invalid :
        p[j].sender = p[i].sender /\ NonceOf(p, i) >= NonceOf(p, j)

Eligible(p, sel, i) ==
    /\ i \notin sel.yielded
    /\ ~Removed(p, sel, i)
    /\ ~(sel.skip_blobs /\ IsBlob(p[i]))

\* best_txs.next(): the first transaction still eligible, 0 when exhausted
SelNext(p, sel) ==
    LET E == {i \in 1..Len(p) : Eligible(p, sel, i)}
    IN  IF E = {} THEN 0 ELSE CHOOSE i \in E : \A j \in E : i <= j

Yield(sel, i) == [sel EXCEPT !.yielded = @ \cup {i}]

mark_invalid(sel, i) == [sel EXCEPT !.invalid = @ \cup {i}]

skip_blobs(sel) == [sel EXCEPT !.skip_blobs = TRUE]

(***************************************************************************)
(* The decisions of default_taiko_payload_builder.                         *)
(***************************************************************************)
\* a gas check that forgets the candidate's own gas limit
GasExceeded_IgnoresCandidate(cum, tx, limit) == cum > limit

\* builder.rs:232  cumulative_gas_used + pool_tx.gas_limit() > block_gas_limit
GasExceeded(cum, tx, limit) == cum + tx.gas_limit > limit

\* a blob check that forgets the candidate's own blob gas
BlobExceeded_IgnoresCandidate(sum, tx) == IsBlob(tx) /\ sum > MAX_DATA_GAS_PER_BLOCK

\* builder.rs:250-252  the blob transaction does not fit the blob space left
BlobExceeded(sum, tx) == IsBlob(tx) /\ sum + tx.blob_gas > MAX_DATA_GAS_PER_BLOCK

\* a loop that checks the cancellation before the gas budget
LoopBranch_CancelFirst(cum, sum, tx, limit, cancelled) ==
    IF cancelled THEN "cancelled"
    ELSE IF GasExceeded(cum, tx, limit) THEN "gas_exceeded"
    ELSE IF BlobExceeded(sum, tx) THEN "blob_exceeded"
    ELSE "transact"

\* a loop that checks the cancellation after the blob budget
LoopBranch_CancelLast(cum, sum, tx, limit, cancelled) ==
    IF GasExceeded(cum, tx, limit) THEN "gas_exceeded"
    ELSE IF BlobExceeded(sum, tx) THEN "blob_exceeded"
    ELSE IF cancelled THEN "cancelled"
    ELSE "transact"

\* builder.rs:230-261  what the loop does with a candidate before executing it:
\* the gas check, then the cancellation check, then the blob check
LoopBranch(cum, sum, tx, limit, cancelled) ==
    IF GasExceeded(cum, tx, limit) THEN "gas_exceeded"
    ELSE IF cancelled THEN "cancelled"
    ELSE IF BlobExceeded(sum, tx) THEN "blob_exceeded"
    ELSE "transact"

\* a loop that never signals the ceiling
BlobCeilingReached_Never(sum) == FALSE

\* builder.rs:307  the blob ceiling is reached exactly
BlobCeilingReached(sum) == sum = MAX_DATA_GAS_PER_BLOCK

\* builder.rs:312  result.gas_used(): the execution engine never uses more gas
\* than the transaction's limit
GasUsedChoices(tx) == {tx.gas_limit, tx.gas_limit - 7000}

\* a fee computed on the gas limit of the transaction, not on the gas it used
MinerFee_OnGasLimit(tx, gas_used) == tx.tip * tx.gas_limit

\* builder.rs:328-331  miner_fee * gas_used
MinerFee(tx, gas_used) == tx.tip * gas_used

\* is_better_payload(best_payload, total_fees): no previous payload, or
\* strictly more fees
is_better_payload(best, fees) == IF best.some THEN fees > best.fees ELSE TRUE

\* Option<T>: None, Some(x) and unwrap_or_default()
None == <<>>
Some(x) == <<x>>
unwrap_or_default(o) == IF o = None THEN 0 ELSE o[1]

NoBlock == [sealed |-> FALSE, body |-> <<>>, gas_used |-> 0, gas_limit |-> 0,
            blob_gas_used |-> None, excess_blob_gas |-> None,
            requests |-> None, requests_root |-> None, fees |-> 0,
            sidecars |-> {}]

Terminal(o) ==
    /\ pc' = "done"
    /\ outcome' = o


(***************************************************************************)
(* The initial state of one build attempt.                                 *)
(***************************************************************************)
Txs == {[sender |-> s, gas_limit |-> k.gas_limit, blob_gas |-> k.blob_gas,
         tip |-> k.tip] : s \in Senders, k \in TxKinds}

\* pools of MaxTx transactions; the first sender is "A" (the senders are
\* interchangeable)
Pools == {p \in [TxIds -> Txs] : MaxTx > 0 => p[1].sender = "A"}

ChainSpecs ==
    { [cancun |-> FALSE, parent_cancun |-> FALSE, prague |-> FALSE],
      [cancun |-> TRUE,  parent_cancun |-> FALSE, prague |-> FALSE],
      [cancun |-> TRUE,  parent_cancun |-> TRUE,  prague |-> TRUE] }

AdapterIdle ==
    /\ sync_cached_reads = <<>>
    /\ conv = <<>>
    /\ borrows = 0
    /\ call = <<>>

CacheIdle ==
    /\ provider = <<>>
    /\ cached_reads = <<>>
    /\ ret = <<>>
    /\ known = <<>>
    /\ nops = 0
    /\ AdapterIdle
    /\ attempt = <<>>
    /\ rollup = <<>>

InitBuild ==
    /\ pool \in Pools
    /\ block_gas_limit \in BlockGasLimits
    /\ best_payload \in BestPayloads
    /\ chain_spec \in ChainSpecs
    /\ cancel = FALSE
    /\ pc = "pre_beacon_root"
    /\ best_txs = NewBestTransactions
    /\ cumulative_gas_used = 0
    /\ sum_blob_gas_used = 0
    /\ executed_txs = <<>>
    /\ receipts = <<>>
    /\ total_fees = 0
    /\ outcome = "none"
    /\ steps = <<>>
    /\ block = NoBlock
    /\ trail = <<>>

Init == InitBuild /\ CacheIdle

inputs == <<pool, block_gas_limit, best_payload, chain_spec>>
loopVars == <<best_txs, cumulative_gas_used, sum_blob_gas_used, executed_txs,
              receipts, total_fees>>

(***************************************************************************)
(* The job's owner requests cancellation, at any time; the flag is read    *)
(* by the loop only (builder.rs:241), so a request after the loop changes  *)
(* nothing and is left out.                                                *)
(***************************************************************************)
Cancel ==
    /\ pc \in {"pre_beacon_root", "pre_blockhashes", "loop"}
    /\ ~cancel
    /\ cancel' = TRUE
    /\ UNCHANGED <<inputs, pc, loopVars, outcome, steps, block, trail, cacheVars, adapterVars, attempt, rollup>>

(***************************************************************************)
(* builder.rs:209-227  the pre-block hooks.                                *)
(***************************************************************************)
PreBlockBeaconRootContractCall ==
    /\ pc = "pre_beacon_root"
    /\ \/ /\ pc' = "pre_blockhashes"
          /\ steps' = Append(steps, "beacon_root")
          /\ UNCHANGED outcome
       \/ /\ Terminal("Err:pre_block")
          /\ UNCHANGED steps
    /\ UNCHANGED <<inputs, cancel, loopVars, block, trail, cacheVars, adapterVars, attempt, rollup>>

\* a block-hash-history update whose failure is dropped
ApplyBlockhashesUpdate_FailureDropped ==
    /\ pc = "pre_blockhashes"
    /\ \/ /\ pc' = "loop"
          /\ steps' = Append(steps, "blockhashes")
          /\ UNCHANGED outcome
       \/ /\ pc' = "loop"
          /\ UNCHANGED <<steps, outcome>>
    /\ UNCHANGED <<inputs, cancel, loopVars, block, trail, cacheVars, adapterVars, attempt, rollup>>

ApplyBlockhashesUpdate ==
    /\ pc = "pre_blockhashes"
    /\ \/ /\ pc' = "loop"
          /\ steps' = Append(steps, "blockhashes")
          /\ UNCHANGED outcome
       \/ /\ Terminal("Err:pre_block")
          /\ UNCHANGED steps
    /\ UNCHANGED <<inputs, cancel, loopVars, block, trail, cacheVars, adapterVars, attempt, rollup>>

(***************************************************************************)
(* builder.rs:230-335  one iteration of the loop, on the candidate the     *)
(* selector produces.                                                      *)
(***************************************************************************)
Candidate == SelNext(pool, best_txs)

Branch ==
    LoopBranch(cumulative_gas_used, sum_blob_gas_used, pool[Candidate],
               block_gas_limit, cancel)

\* what the iteration saw, from the state before it
Seen(i, b) ==
    [tx |-> i, branch |-> b, cancel |-> cancel,
     cumulative_gas_used |-> cumulative_gas_used,
     sum_blob_gas_used |-> sum_blob_gas_used,
     fits |-> cumulative_gas_used + pool[i].gas_limit <= block_gas_limit,
     blob_fits |-> sum_blob_gas_used + pool[i].blob_gas <= MAX_DATA_GAS_PER_BLOCK]

\* a gas check that skips the candidate without mark_invalid
LoopGasExceeded_NoMarkInvalid ==
    /\ pc = "loop" /\ Candidate # 0
    /\ Branch = "gas_exceeded"
    /\ best_txs' = Yield(best_txs, Candidate)
    /\ trail' = Append(trail, Seen(Candidate, "gas_exceeded"))
    /\ UNCHANGED <<inputs, cancel, pc, cumulative_gas_used, sum_blob_gas_used,
                   executed_txs, receipts, total_fees, outcome, steps, block,
                   cacheVars, adapterVars, attempt, rollup>>

\* builder.rs:232-238
LoopGasExceeded ==
    /\ pc = "loop" /\ Candidate # 0
    /\ Branch = "gas_exceeded"
    /\ best_txs' = mark_invalid(Yield(best_txs, Candidate), Candidate)
    /\ trail' = Append(trail, Seen(Candidate, "gas_exceeded"))
    /\ UNCHANGED <<inputs, cancel, pc, cumulative_gas_used, sum_blob_gas_used,
                   executed_txs, receipts, total_fees, outcome, steps, block,
                   cacheVars, adapterVars, attempt, rollup>>

\* builder.rs:240-243
LoopCancelled ==
    /\ pc = "loop" /\ Candidate # 0
    /\ Branch = "cancelled"
    /\ Terminal("Cancelled")
    /\ best_txs' = Yield(best_txs, Candidate)
    /\ trail' = Append(trail, Seen(Candidate, "cancelled"))
    /\ UNCHANGED <<inputs, cancel, cumulative_gas_used, sum_blob_gas_used,
                   executed_txs, receipts, total_fees, steps, block, cacheVars, adapterVars, attempt, rollup>>

\* a blob check that gives up every blob transaction left instead of
\* invalidating the candidate
LoopBlobExceeded_SkipsBlobs ==
    /\ pc = "loop" /\ Candidate # 0
    /\ Branch = "blob_exceeded"
    /\ best_txs' = skip_blobs(Yield(best_txs, Candidate))
    /\ trail' = Append(trail, Seen(Candidate, "blob_exceeded"))
    /\ UNCHANGED <<inputs, cancel, pc, cumulative_gas_used, sum_blob_gas_used,
                   executed_txs, receipts, total_fees, outcome, steps, block,
                   cacheVars, adapterVars, attempt, rollup>>

\* builder.rs:248-261
LoopBlobExceeded ==
    /\ pc = "loop" /\ Candidate # 0
    /\ Branch = "blob_exceeded"
    /\ best_txs' = mark_invalid(Yield(best_txs, Candidate), Candidate)
    /\ trail' = Append(trail, Seen(Candidate, "blob_exceeded"))
    /\ UNCHANGED <<inputs, cancel, pc, cumulative_gas_used, sum_blob_gas_used,
                   executed_txs, receipts, total_fees, outcome, steps, block,
                   cacheVars, adapterVars, attempt, rollup>>

\* a nonce-too-low failure handled like the other validation failures
TransactNonceTooLow_MarksInvalid ==
    /\ pc = "loop" /\ Candidate # 0
    /\ Branch = "transact"
    /\ best_txs' = mark_invalid(Yield(best_txs, Candidate), Candidate)
    /\ trail' = Append(trail, Seen(Candidate, "nonce_too_low"))
    /\ UNCHANGED <<inputs, cancel, pc, cumulative_gas_used, sum_blob_gas_used,
                   executed_txs, receipts, total_fees, outcome, steps, block,
                   cacheVars, adapterVars, attempt, rollup>>

\* builder.rs:272-288  evm.transact() fails with InvalidTransaction::NonceTooLow
TransactNonceTooLow ==
    /\ pc = "loop" /\ Candidate # 0
    /\ Branch = "transact"
    /\ best_txs' = Yield(best_txs, Candidate)
    /\ trail' = Append(trail, Seen(Candidate, "nonce_too_low"))
    /\ UNCHANGED <<inputs, cancel, pc, cumulative_gas_used, sum_blob_gas_used,
                   executed_txs, receipts, total_fees, outcome, steps, block,
                   cacheVars, adapterVars, attempt, rollup>>

\* a validation failure that still charges the candidate's gas to the block
TransactInvalid_ChargesGas ==
    /\ pc = "loop" /\ Candidate # 0
    /\ Branch = "transact"
    /\ best_txs' = mark_invalid(Yield(best_txs, Candidate), Candidate)
    /\ cumulative_gas_used' = cumulative_gas_used + pool[Candidate].gas_limit
    /\ trail' = Append(trail, Seen(Candidate, "invalid"))
    /\ UNCHANGED <<inputs, cancel, pc, sum_blob_gas_used,
                   executed_txs, receipts, total_fees, outcome, steps, block,
                   cacheVars, adapterVars, attempt, rollup>>

\* a validation failure that skips the transaction and keeps its descendants
TransactInvalid_KeepsDescendants ==
    /\ pc = "loop" /\ Candidate # 0
    /\ Branch = "transact"
    /\ best_txs' = Yield(best_txs, Candidate)
    /\ trail' = Append(trail, Seen(Candidate, "invalid"))
    /\ UNCHANGED <<inputs, cancel, pc, cumulative_gas_used, sum_blob_gas_used,
                   executed_txs, receipts, total_fees, outcome, steps, block,
                   cacheVars, adapterVars, attempt, rollup>>

\* builder.rs:272-288  evm.transact() fails with another InvalidTransaction
TransactInvalid ==
    /\ pc = "loop" /\ Candidate # 0
    /\ Branch = "transact"
    /\ best_txs' = mark_invalid(Yield(best_txs, Candidate), Candidate)
    /\ trail' = Append(trail, Seen(Candidate, "invalid"))
    /\ UNCHANGED <<inputs, cancel, pc, cumulative_gas_used, sum_blob_gas_used,
                   executed_txs, receipts, total_fees, outcome, steps, block,
                   cacheVars, adapterVars, attempt, rollup>>

\* an engine failure that skips the transaction and goes on
TransactFatal_GoesOn ==
    /\ pc = "loop" /\ Candidate # 0
    /\ Branch = "transact"
    /\ best_txs' = Yield(best_txs, Candidate)
    /\ trail' = Append(trail, Seen(Candidate, "fatal"))
    /\ UNCHANGED <<inputs, cancel, pc, cumulative_gas_used, sum_blob_gas_used,
                   executed_txs, receipts, total_fees, outcome, steps, block,
                   cacheVars, adapterVars, attempt, rollup>>

\* builder.rs:289-292  evm.transact() fails with an error that is no
\* EVMError::Transaction
TransactFatal ==
    /\ pc = "loop" /\ Candidate # 0
    /\ Branch = "transact"
    /\ Terminal("Err:evm")
    /\ best_txs' = Yield(best_txs, Candidate)
    /\ trail' = Append(trail, Seen(Candidate, "fatal"))
    /\ UNCHANGED <<inputs, cancel, cumulative_gas_used, sum_blob_gas_used,
                   executed_txs, receipts, total_fees, steps, block, cacheVars, adapterVars, attempt, rollup>>

\* builder.rs:301-310  the blob gas after a successful transaction
BlobGasAfter(sum, tx) == IF IsBlob(tx) THEN sum + tx.blob_gas ELSE sum

\* builder.rs:306-309  the selector after a successful transaction
SelectorAfter(sel, sum, tx) ==
    IF IsBlob(tx) /\ BlobCeilingReached(BlobGasAfter(sum, tx))
    THEN skip_blobs(sel) ELSE sel

\* a receipt created before the transaction's gas is added to the cumulative gas
TransactOk_ReceiptBeforeGas ==
    /\ pc = "loop" /\ Candidate # 0
    /\ Branch = "transact"
    /\ \E gas_used \in GasUsedChoices(pool[Candidate]) :
        /\ sum_blob_gas_used' = BlobGasAfter(sum_blob_gas_used, pool[Candidate])
        /\ best_txs' = SelectorAfter(Yield(best_txs, Candidate), sum_blob_gas_used,
                                     pool[Candidate])
        /\ cumulative_gas_used' = cumulative_gas_used + gas_used
        /\ receipts' = Append(receipts,
                              [tx |-> Candidate,
                               cumulative_gas_used |-> cumulative_gas_used])
        /\ total_fees' = total_fees + MinerFee(pool[Candidate], gas_used)
        /\ executed_txs' = Append(executed_txs,
                                  [id |-> Candidate, gas_used |-> gas_used])
    /\ trail' = Append(trail, Seen(Candidate, "executed"))
    /\ UNCHANGED <<inputs, cancel, pc, outcome, steps, block, cacheVars, adapterVars, attempt, rollup>>

\* a fee that also depends on the time at which the transaction ran
TransactOk_FeeByClock ==
    /\ pc = "loop" /\ Candidate # 0
    /\ Branch = "transact"
    /\ \E gas_used \in GasUsedChoices(pool[Candidate]), clock \in 0..1 :
        /\ sum_blob_gas_used' = BlobGasAfter(sum_blob_gas_used, pool[Candidate])
        /\ best_txs' = SelectorAfter(Yield(best_txs, Candidate), sum_blob_gas_used,
                                     pool[Candidate])
        /\ cumulative_gas_used' = cumulative_gas_used + gas_used
        /\ receipts' = Append(receipts,
                              [tx |-> Candidate,
                               cumulative_gas_used |-> cumulative_gas_used'])
        /\ total_fees' = total_fees + MinerFee(pool[Candidate], gas_used) + clock
        /\ executed_txs' = Append(executed_txs,
                                  [id |-> Candidate, gas_used |-> gas_used])
    /\ trail' = Append(trail, Seen(Candidate, "executed"))
    /\ UNCHANGED <<inputs, cancel, pc, outcome, steps, block, cacheVars, adapterVars, attempt, rollup>>

\* builder.rs:296-334  evm.transact() succeeds
TransactOk ==
    /\ pc = "loop" /\ Candidate # 0
    /\ Branch = "transact"
    /\ \E gas_used \in GasUsedChoices(pool[Candidate]) :
        /\ sum_blob_gas_used' = BlobGasAfter(sum_blob_gas_used, pool[Candidate])
        /\ best_txs' = SelectorAfter(Yield(best_txs, Candidate), sum_blob_gas_used,
                                     pool[Candidate])
        /\ cumulative_gas_used' = cumulative_gas_used + gas_used
        /\ receipts' = Append(receipts,
                              [tx |-> Candidate,
                               cumulative_gas_used |-> cumulative_gas_used'])
        /\ total_fees' = total_fees + MinerFee(pool[Candidate], gas_used)
        /\ executed_txs' = Append(executed_txs,
                                  [id |-> Candidate, gas_used |-> gas_used])
    /\ trail' = Append(trail, Seen(Candidate, "executed"))
    /\ UNCHANGED <<inputs, cancel, pc, outcome, steps, block, cacheVars, adapterVars, attempt, rollup>>

\* a loop end that assembles the block whatever the fees
LoopEnd_NeverAborts(best, fees) == "assemble"

\* builder.rs:337-341  the payload is not built unless it is better than the
\* best one so far
LoopEnd(best, fees) ==
    IF is_better_payload(best, fees) THEN "assemble" ELSE "Aborted"

\* builder.rs:230, 337-339  best_txs.next() is None and the payload is not
\* better: the attempt ends as Aborted
AbortNotBetter ==
    /\ pc = "loop" /\ Candidate = 0
    /\ LoopEnd(best_payload, total_fees) = "Aborted"
    /\ Terminal("Aborted")
    /\ UNCHANGED <<inputs, cancel, loopVars, steps, block, trail, cacheVars, adapterVars, attempt, rollup>>

\* a loop that is not left when the selector is exhausted
ProceedBetter_StaysInLoop ==
    /\ pc = "loop" /\ Candidate = 0
    /\ LoopEnd(best_payload, total_fees) = "assemble"
    /\ pc' = "loop"
    /\ UNCHANGED <<inputs, cancel, loopVars, outcome, steps, block, trail, cacheVars, adapterVars, attempt, rollup>>

\* builder.rs:230, 337-343  best_txs.next() is None and the payload is better:
\* the attempt goes on to assemble the block
ProceedBetter ==
    /\ pc = "loop" /\ Candidate = 0
    /\ LoopEnd(best_payload, total_fees) = "assemble"
    /\ pc' = "assemble"
    /\ UNCHANGED <<inputs, cancel, loopVars, outcome, steps, block, trail, cacheVars, adapterVars, attempt, rollup>>

(***************************************************************************)
(* builder.rs:343-448  the assembly of the block: the requests (when       *)
(* prague is active), the withdrawals, the merge of the transitions, the   *)
(* state root, the sidecars and blob fields (when cancun is active), the   *)
(* header and the seal.  Each call of a fallible collaborator either       *)
(* succeeds or ends the attempt with an error there.                       *)
(***************************************************************************)
\* the executed EIP-4844 transactions
ExecutedBlobTxs ==
    {executed_txs[k].id : k \in {i \in 1..Len(executed_txs) :
                                    IsBlob(pool[executed_txs[i].id])}}

\* builder.rs:343-360
RequestsSteps == IF chain_spec.prague THEN <<"requests">> ELSE <<>>

\* builder.rs:393-398
SidecarSteps == IF chain_spec.cancun THEN <<"sidecars">> ELSE <<>>

\* builder.rs:343-360  the requests and their root, when prague is active at
\* the attempt's timestamp: the deposit requests parsed from the receipts and
\* the withdrawal requests of the post-block contract call, concatenated
Requests == <<[deposit_requests_of |-> receipts], "withdrawal_requests">>

calculate_requests_root(requests) == [requests_root_of |-> requests]

\* a builder that never attaches the requests root
RequestsOutcome_NoRoot ==
    IF chain_spec.prague
    THEN [requests |-> Some(Requests), requests_root |-> None]
    ELSE [requests |-> None, requests_root |-> None]

RequestsOutcome ==
    IF chain_spec.prague
    THEN [requests |-> Some(Requests),
          requests_root |-> Some(calculate_requests_root(Requests))]
    ELSE [requests |-> None, requests_root |-> None]

\* builder.rs:186  the blob fields of the parent header: present on a parent
\* at whose timestamp cancun was active, absent on an earlier one
ParentBlock(cs) ==
    IF cs.parent_cancun
    THEN [excess_blob_gas |-> Some(2 * DATA_GAS_PER_BLOB),
          blob_gas_used |-> Some(4 * DATA_GAS_PER_BLOB)]
    ELSE [excess_blob_gas |-> None, blob_gas_used |-> None]

\* builder.rs:403, 407  calculate_excess_blob_gas(parent_excess_blob_gas,
\* parent_blob_gas_used) of reth_primitives: a function of its two arguments,
\* kept symbolic
calculate_excess_blob_gas(parent_excess_blob_gas, parent_blob_gas_used) ==
    [excess_of |-> <<parent_excess_blob_gas, parent_blob_gas_used>>]

\* an excess blob gas that never looks at the parent header
ExcessBlobGas_IgnoresParent(cs, parent_block) ==
    IF cs.cancun THEN Some(calculate_excess_blob_gas(0, 0)) ELSE None

\* builder.rs:390-408  excess_blob_gas of the header
ExcessBlobGas(cs, parent_block) ==
    IF cs.cancun
    THEN IF cs.parent_cancun
         THEN Some(calculate_excess_blob_gas(
                       unwrap_or_default(parent_block.excess_blob_gas),
                       unwrap_or_default(parent_block.blob_gas_used)))
         ELSE Some(calculate_excess_blob_gas(0, 0))
    ELSE None

\* builder.rs:391-411  blob_gas_used of the header
BlobGasUsed(cs, sum) == IF cs.cancun THEN Some(sum) ELSE None

\* builder.rs:107-146  the blob fields and the requests root of the header of
\* build_empty_payload
EmptyPayloadHeader(cs, parent_block) ==
    [blob_gas_used |-> BlobGasUsed(cs, 0),
     excess_blob_gas |-> ExcessBlobGas(cs, parent_block),
     requests_root |-> None]

\* the EIP-4844 transactions of the pool, whose sidecars its blob store may hold
BlobTxs(p) == {i \in DOMAIN p : IsBlob(p[i])}

\* a pool that hands out the sidecars it has and is silent about the others
get_all_blobs_exact_Available(blob_store, hashes) ==
    [ok |-> TRUE, sidecars |-> hashes \cap blob_store]

\* pool.get_all_blobs_exact(hashes): the sidecars of exactly the requested
\* transactions, or an error if the pool's blob store lacks one of them
get_all_blobs_exact(blob_store, hashes) ==
    IF hashes \subseteq blob_store
    THEN [ok |-> TRUE, sidecars |-> hashes]
    ELSE [ok |-> FALSE, sidecars |-> {}]

\* builder.rs:388-398  the sidecars of the payload: those of the executed
\* EIP-4844 transactions when cancun is active, none otherwise
BlobSidecars(cs, blob_store) ==
    IF cs.cancun
    THEN get_all_blobs_exact(blob_store, ExecutedBlobTxs)
    ELSE [ok |-> TRUE, sidecars |-> {}]

\* builder.rs:413-448  the block sealed over a body, and its payload
Sealed(body, blob_sidecars) ==
    [sealed |-> TRUE,
     body |-> body,
     gas_used |-> cumulative_gas_used,
     gas_limit |-> block_gas_limit,
     blob_gas_used |-> BlobGasUsed(chain_spec, sum_blob_gas_used),
     excess_blob_gas |-> ExcessBlobGas(chain_spec, ParentBlock(chain_spec)),
     requests |-> RequestsOutcome.requests,
     requests_root |-> RequestsOutcome.requests_root,
     fees |-> total_fees,
     sidecars |-> blob_sidecars]

\* a block sealed before the executed transactions are moved into its body
SealedBlock_EmptyBody(blob_sidecars) == Sealed(<<>>, blob_sidecars)

\* builder.rs:438-443  the sealed block and its payload
SealedBlock(blob_sidecars) == Sealed(executed_txs, blob_sidecars)

\* an assembly that applies the withdrawals before the request hook
AssembleBlock_WithdrawalsFirst ==
    /\ pc = "assemble"
    /\ \/ \* builder.rs:347-353  the requests cannot be collected
          /\ chain_spec.prague
          /\ Terminal("Err:assembly")
          /\ steps' = Append(steps, "withdrawals")
          /\ UNCHANGED block
       \/ \* builder.rs:362-363  commit_withdrawals fails
          /\ Terminal("Err:assembly")
          /\ UNCHANGED <<steps, block>>
       \/ \* builder.rs:380-383  the provider cannot compute the state root
          /\ Terminal("Err:assembly")
          /\ steps' = steps \o <<"withdrawals">> \o RequestsSteps \o <<"merge">>
          /\ UNCHANGED block
       \/ \* builder.rs:388-448  the sidecars are fetched from the pool, whose blob
          \* store holds those of some blob transactions; the block is sealed unless
          \* one is lacking
          \E blob_store \in SUBSET BlobTxs(pool) :
             LET fetched == BlobSidecars(chain_spec, blob_store)
                 done == steps \o <<"withdrawals">> \o RequestsSteps
                            \o <<"merge", "state_root">>
             IN  IF fetched.ok
                 THEN /\ Terminal("Better")
                      /\ steps' = done \o SidecarSteps \o <<"seal">>
                      /\ block' = SealedBlock(fetched.sidecars)
                 ELSE /\ Terminal("Err:assembly")
                      /\ steps' = Append(done, "sidecars_missing")
                      /\ UNCHANGED block
    /\ UNCHANGED <<inputs, cancel, loopVars, trail, cacheVars, adapterVars, attempt, rollup>>

AssembleBlock ==
    /\ pc = "assemble"
    /\ \/ \* builder.rs:347-353  the requests cannot be collected
          /\ chain_spec.prague
          /\ Terminal("Err:assembly")
          /\ UNCHANGED <<steps, block>>
       \/ \* builder.rs:362-363  commit_withdrawals fails
          /\ Terminal("Err:assembly")
          /\ steps' = steps \o RequestsSteps
          /\ UNCHANGED block
       \/ \* builder.rs:380-383  the provider cannot compute the state root
          /\ Terminal("Err:assembly")
          /\ steps' = steps \o RequestsSteps \o <<"withdrawals", "merge">>
          /\ UNCHANGED block
       \/ \* builder.rs:388-448  the sidecars are fetched from the pool, whose blob
          \* store holds those of some blob transactions; the block is sealed unless
          \* one is lacking
          \E blob_store \in SUBSET BlobTxs(pool) :
             LET fetched == BlobSidecars(chain_spec, blob_store)
                 done == steps \o RequestsSteps
                            \o <<"withdrawals", "merge", "state_root">>
             IN  IF fetched.ok
                 THEN /\ Terminal("Better")
                      /\ steps' = done \o SidecarSteps \o <<"seal">>
                      /\ block' = SealedBlock(fetched.sidecars)
                 ELSE /\ Terminal("Err:assembly")
                      /\ steps' = Append(done, "sidecars_missing")
                      /\ UNCHANGED block
    /\ UNCHANGED <<inputs, cancel, loopVars, trail, cacheVars, adapterVars, attempt, rollup>>

NextBuild ==
    \/ Cancel
    \/ PreBlockBeaconRootContractCall
    \/ ApplyBlockhashesUpdate
    \/ LoopGasExceeded
    \/ LoopCancelled
    \/ LoopBlobExceeded
    \/ TransactNonceTooLow
    \/ TransactInvalid
    \/ TransactFatal
    \/ TransactOk
    \/ AbortNotBetter
    \/ ProceedBetter
    \/ AssembleBlock

Spec == Init /\ [][NextBuild]_vars

(***************************************************************************)
(* builder.rs:47-159  build_empty_payload, next to an attempt of           *)
(* default_taiko_payload_builder over a pool without transactions and with *)
(* no previous best payload, for the same gas limit and chain rules.       *)
(* attempt is the state of build_empty_payload: its position, the steps it *)
(* applied to its State, its result and the block it sealed.               *)
(***************************************************************************)
EmptyPayloadStart ==
    [pc |-> "pre_beacon_root", steps |-> <<>>, outcome |-> "none", block |-> NoBlock]

InitEmpty ==
    /\ pool = <<>>
    /\ block_gas_limit \in BlockGasLimits
    /\ best_payload = [some |-> FALSE, fees |-> 0]
    /\ chain_spec \in ChainSpecs
    /\ cancel = FALSE
    /\ pc = "pre_beacon_root"
    /\ best_txs = NewBestTransactions
    /\ cumulative_gas_used = 0
    /\ sum_blob_gas_used = 0
    /\ executed_txs = <<>>
    /\ receipts = <<>>
    /\ total_fees = 0
    /\ outcome = "none"
    /\ steps = <<>>
    /\ block = NoBlock
    /\ trail = <<>>
    /\ provider = <<>>
    /\ cached_reads = <<>>
    /\ ret = <<>>
    /\ known = <<>>
    /\ nops = 0
    /\ AdapterIdle
    /\ attempt = EmptyPayloadStart
    /\ rollup = <<>>

\* builder.rs:76-88  pre_block_beacon_root_contract_call(..), the only
\* pre-block hook of build_empty_payload
BuildEmptyPreBlock ==
    /\ attempt.pc = "pre_beacon_root"
    /\ \/ attempt' = [attempt EXCEPT !.pc = "assemble",
                                     !.steps = Append(@, "beacon_root")]
       \/ attempt' = [attempt EXCEPT !.pc = "done", !.outcome = "Err"]
    /\ UNCHANGED <<buildVars, cacheVars, adapterVars, rollup>>

\* builder.rs:128-150  the header and the block of build_empty_payload
EmptyPayloadBlock ==
    LET header == EmptyPayloadHeader(chain_spec, ParentBlock(chain_spec))
    IN  [sealed |-> TRUE,
         body |-> <<>>,
         gas_used |-> 0,
         gas_limit |-> block_gas_limit,
         blob_gas_used |-> header.blob_gas_used,
         excess_blob_gas |-> header.excess_blob_gas,
         requests |-> None,
         requests_root |-> header.requests_root,
         fees |-> 0,
         sidecars |-> {}]

\* builder.rs:90-158  commit_withdrawals, merge_transitions, the state root,
\* the header and the seal
BuildEmptyAssemble ==
    /\ attempt.pc = "assemble"
    /\ \/ \* builder.rs:90-94  commit_withdrawals fails
          attempt' = [attempt EXCEPT !.pc = "done", !.outcome = "Err"]
       \/ \* builder.rs:102-105  the provider cannot compute the state root
          attempt' = [attempt EXCEPT !.pc = "done", !.outcome = "Err",
                                     !.steps = @ \o <<"withdrawals", "merge">>]
       \/ \* builder.rs:107-158
          attempt' = [attempt EXCEPT !.pc = "done", !.outcome = "Ok",
                                     !.steps = @ \o <<"withdrawals", "merge",
                                                      "state_root", "seal">>,
                                     !.block = EmptyPayloadBlock]
    /\ UNCHANGED <<buildVars, cacheVars, adapterVars, rollup>>

\* the two functions run side by side; the pool being empty, the loop of the
\* build attempt has no iteration
NextEmpty ==
    \/ Cancel
    \/ PreBlockBeaconRootContractCall
    \/ ApplyBlockhashesUpdate
    \/ ProceedBetter
    \/ AssembleBlock
    \/ BuildEmptyPreBlock
    \/ BuildEmptyAssemble

SpecEmpty == InitEmpty /\ [][NextEmpty]_vars

(***************************************************************************)
(* The attempt under fairness.  default_taiko_payload_builder is           *)
(* sequential code and every callee returns, so a step of the function     *)
(* that can be taken is taken; the owner of the job is free never to       *)
(* request cancellation.                                                   *)
(***************************************************************************)
BuilderStep ==
    \/ PreBlockBeaconRootContractCall
    \/ ApplyBlockhashesUpdate
    \/ LoopGasExceeded
    \/ LoopCancelled
    \/ LoopBlobExceeded
    \/ TransactNonceTooLow
    \/ TransactInvalid
    \/ TransactFatal
    \/ TransactOk
    \/ AbortNotBetter
    \/ ProceedBetter
    \/ AssembleBlock

SpecFair == Spec /\ WF_vars(BuilderStep)


(***************************************************************************)
(* CachedReads (database.rs).  A map is a function whose domain is the set *)
(* of its keys.                                                            *)
(***************************************************************************)
Addresses == {"a1", "a2"}
Slots == {"s1", "s2"}
CodeHashes == {"h1", "h2"}
BlockNumbers == {1, 2}

EmptyMap == [k \in {} |-> 0]

Put(m, k, v) == [x \in DOMAIN m \cup {k} |-> IF x = k THEN v ELSE m[x]]

\* Option<AccountInfo>::None
NoAccount == "none"

\* database.rs:304-308  CachedAccount::new
NewCachedAccount(info) == [info |-> info, storage |-> EmptyMap]

\* database.rs:34-39  CachedReads::default()
DefaultCachedReads ==
    [accounts |-> EmptyMap, contracts |-> EmptyMap, block_hashes |-> EmptyMap]

(***************************************************************************)
(* The provider (a DatabaseRef over the parent block's state): immutable,  *)
(* and an account it reports absent has no storage.                        *)
(***************************************************************************)
Providers ==
    {[basic |-> b] : b \in [Addresses -> {NoAccount, "p"}]}

basic_ref(pr, address) == pr.basic[address]

storage_ref(pr, address, index) ==
    IF pr.basic[address] = NoAccount THEN 0
    ELSE IF index = "s1" THEN 5 ELSE 0

\* A provider may be the view at one chain of the state several chains share
\* (field chain): its bytecodes and block hashes are then that chain's.
IsChainView(pr) == "chain" \in DOMAIN pr

code_by_hash_ref(pr, code_hash) ==
    IF IsChainView(pr) THEN <<"code", pr.chain, code_hash>> ELSE <<"code", code_hash>>

block_hash_ref(pr, number) ==
    IF IsChainView(pr) THEN <<"hash", pr.chain, number>> ELSE <<"hash", number>>

(***************************************************************************)
(* The result of a cache operation: the cache after it, whether it         *)
(* returned Ok, the value, and the provider calls it made.  `fail` is the  *)
(* position of the provider call that returns an error (0: none does).     *)
(***************************************************************************)
DbOk(c, v, db_calls) == [cached |-> c, ok |-> TRUE, value |-> v, db_calls |-> db_calls]

DbErr(c, db_calls) == [cached |-> c, ok |-> FALSE, value |-> "error", db_calls |-> db_calls]

\* an insert_account that leaves an account the cache already holds as it is
insert_account_KeepsExisting(c, address, info, storage) ==
    IF address \in DOMAIN c.accounts THEN c
    ELSE [c EXCEPT !.accounts = Put(@, address, [info |-> info, storage |-> storage])]

\* database.rs:53-61
insert_account(c, address, info, storage) ==
    [c EXCEPT !.accounts = Put(@, address, [info |-> info, storage |-> storage])]

\* a basic that asks the provider even when the cache holds the account
basic_AlwaysQueries(c, pr, address, fail) ==
    IF fail = 1
    THEN DbErr(c, <<<<"basic", address>>>>)
    ELSE DbOk([c EXCEPT !.accounts =
                   Put(@, address, NewCachedAccount(basic_ref(pr, address)))],
              basic_ref(pr, address),
              <<<<"basic", address>>>>)

\* database.rs:76-84
basic(c, pr, address, fail) ==
    IF address \in DOMAIN c.accounts
    THEN DbOk(c, c.accounts[address].info, <<>>)
    ELSE IF fail = 1
         THEN DbErr(c, <<<<"basic", address>>>>)
         ELSE DbOk([c EXCEPT !.accounts =
                        Put(@, address, NewCachedAccount(basic_ref(pr, address)))],
                   basic_ref(pr, address),
                   <<<<"basic", address>>>>)

\* a code_by_hash whose cache holds the latest bytecode only
code_by_hash_KeepsLatest(c, pr, code_hash, fail) ==
    IF code_hash \in DOMAIN c.contracts
    THEN DbOk(c, c.contracts[code_hash], <<>>)
    ELSE IF fail = 1
         THEN DbErr(c, <<<<"code", code_hash>>>>)
         ELSE DbOk([c EXCEPT !.contracts =
                        Put(EmptyMap, code_hash, code_by_hash_ref(pr, code_hash))],
                   code_by_hash_ref(pr, code_hash),
                   <<<<"code", code_hash>>>>)

\* database.rs:86-92
code_by_hash(c, pr, code_hash, fail) ==
    IF code_hash \in DOMAIN c.contracts
    THEN DbOk(c, c.contracts[code_hash], <<>>)
    ELSE IF fail = 1
         THEN DbErr(c, <<<<"code", code_hash>>>>)
         ELSE DbOk([c EXCEPT !.contracts =
                        Put(@, code_hash, code_by_hash_ref(pr, code_hash))],
                   code_by_hash_ref(pr, code_hash),
                   <<<<"code", code_hash>>>>)

\* a storage that answers zero for a cached absent account without asking
\* the provider
storage_ChecksCachedAbsence(c, pr, address, index, fail) ==
    IF address \in DOMAIN c.accounts
    THEN IF index \in DOMAIN c.accounts[address].storage
         THEN DbOk(c, c.accounts[address].storage[index], <<>>)
         ELSE IF c.accounts[address].info = NoAccount
              THEN DbOk(c, 0, <<>>)
              ELSE IF fail = 1
                   THEN DbErr(c, <<<<"storage", address, index>>>>)
                   ELSE DbOk([c EXCEPT !.accounts[address].storage =
                                  Put(@, index, storage_ref(pr, address, index))],
                             storage_ref(pr, address, index),
                             <<<<"storage", address, index>>>>)
    ELSE IF fail = 1
         THEN DbErr(c, <<<<"basic", address>>>>)
         ELSE IF basic_ref(pr, address) # NoAccount
              THEN IF fail = 2
                   THEN DbErr(c, <<<<"basic", address>>, <<"storage", address, index>>>>)
                   ELSE DbOk([c EXCEPT !.accounts =
                                  Put(@, address,
                                      [info |-> basic_ref(pr, address),
                                       storage |-> Put(EmptyMap, index,
                                                       storage_ref(pr, address, index))])],
                             storage_ref(pr, address, index),
                             <<<<"basic", address>>, <<"storage", address, index>>>>)
              ELSE DbOk([c EXCEPT !.accounts =
                             Put(@, address, NewCachedAccount(NoAccount))],
                        0,
                        <<<<"basic", address>>>>)

\* a storage that stores the account it loaded before it asks for the slot
storage_KeepsAccountOnSlotError(c, pr, address, index, fail) ==
    IF address \in DOMAIN c.accounts
    THEN IF index \in DOMAIN c.accounts[address].storage
         THEN DbOk(c, c.accounts[address].storage[index], <<>>)
         ELSE IF fail = 1
              THEN DbErr(c, <<<<"storage", address, index>>>>)
              ELSE DbOk([c EXCEPT !.accounts[address].storage =
                             Put(@, index, storage_ref(pr, address, index))],
                        storage_ref(pr, address, index),
                        <<<<"storage", address, index>>>>)
    ELSE IF fail = 1
         THEN DbErr(c, <<<<"basic", address>>>>)
         ELSE IF basic_ref(pr, address) # NoAccount
              THEN IF fail = 2
                   THEN DbErr([c EXCEPT !.accounts =
                                   Put(@, address,
                                       NewCachedAccount(basic_ref(pr, address)))],
                              <<<<"basic", address>>, <<"storage", address, index>>>>)
                   ELSE DbOk([c EXCEPT !.accounts =
                                  Put(@, address,
                                      [info |-> basic_ref(pr, address),
                                       storage |-> Put(EmptyMap, index,
                                                       storage_ref(pr, address, index))])],
                             storage_ref(pr, address, index),
                             <<<<"basic", address>>, <<"storage", address, index>>>>)
              ELSE DbOk([c EXCEPT !.accounts =
                             Put(@, address, NewCachedAccount(NoAccount))],
                        0,
                        <<<<"basic", address>>>>)

\* a storage that loads the account anew whenever the slot is not cached
storage_ReloadsAccount(c, pr, address, index, fail) ==
    IF address \in DOMAIN c.accounts /\ index \in DOMAIN c.accounts[address].storage
    THEN DbOk(c, c.accounts[address].storage[index], <<>>)
    ELSE IF fail = 1
         THEN DbErr(c, <<<<"basic", address>>>>)
         ELSE IF basic_ref(pr, address) # NoAccount
              THEN IF fail = 2
                   THEN DbErr(c, <<<<"basic", address>>, <<"storage", address, index>>>>)
                   ELSE DbOk([c EXCEPT !.accounts =
                                  Put(@, address,
                                      [info |-> basic_ref(pr, address),
                                       storage |-> Put(EmptyMap, index,
                                                       storage_ref(pr, address, index))])],
                             storage_ref(pr, address, index),
                             <<<<"basic", address>>, <<"storage", address, index>>>>)
              ELSE DbOk([c EXCEPT !.accounts =
                             Put(@, address, NewCachedAccount(NoAccount))],
                        0,
                        <<<<"basic", address>>>>)

\* a storage that stores the account it loads but never the slot
storage_ForgetsSlot(c, pr, address, index, fail) ==
    IF address \in DOMAIN c.accounts
    THEN IF index \in DOMAIN c.accounts[address].storage
         THEN DbOk(c, c.accounts[address].storage[index], <<>>)
         ELSE IF fail = 1
              THEN DbErr(c, <<<<"storage", address, index>>>>)
              ELSE DbOk(c, storage_ref(pr, address, index),
                        <<<<"storage", address, index>>>>)
    ELSE IF fail = 1
         THEN DbErr(c, <<<<"basic", address>>>>)
         ELSE IF basic_ref(pr, address) # NoAccount
              THEN IF fail = 2
                   THEN DbErr(c, <<<<"basic", address>>, <<"storage", address, index>>>>)
                   ELSE DbOk([c EXCEPT !.accounts =
                                  Put(@, address, NewCachedAccount(basic_ref(pr, address)))],
                             storage_ref(pr, address, index),
                             <<<<"basic", address>>, <<"storage", address, index>>>>)
              ELSE DbOk([c EXCEPT !.accounts =
                             Put(@, address, NewCachedAccount(NoAccount))],
                        0,
                        <<<<"basic", address>>>>)

\* database.rs:94-115
storage(c, pr, address, index, fail) ==
    IF address \in DOMAIN c.accounts
    THEN IF index \in DOMAIN c.accounts[address].storage
         THEN DbOk(c, c.accounts[address].storage[index], <<>>)
         ELSE IF fail = 1
              THEN DbErr(c, <<<<"storage", address, index>>>>)
              ELSE DbOk([c EXCEPT !.accounts[address].storage =
                             Put(@, index, storage_ref(pr, address, index))],
                        storage_ref(pr, address, index),
                        <<<<"storage", address, index>>>>)
    ELSE \* acc needs to be loaded for us to access slots.
         IF fail = 1
         THEN DbErr(c, <<<<"basic", address>>>>)
         ELSE IF basic_ref(pr, address) # NoAccount
              THEN IF fail = 2
                   THEN DbErr(c, <<<<"basic", address>>, <<"storage", address, index>>>>)
                   ELSE DbOk([c EXCEPT !.accounts =
                                  Put(@, address,
                                      [info |-> basic_ref(pr, address),
                                       storage |-> Put(EmptyMap, index,
                                                       storage_ref(pr, address, index))])],
                             storage_ref(pr, address, index),
                             <<<<"basic", address>>, <<"storage", address, index>>>>)
              ELSE DbOk([c EXCEPT !.accounts =
                             Put(@, address, NewCachedAccount(NoAccount))],
                        0,
                        <<<<"basic", address>>>>)

\* a block_hash that answers from any block hash the cache holds
block_hash_AnyCached(c, pr, number, fail) ==
    IF DOMAIN c.block_hashes # {}
    THEN DbOk(c, c.block_hashes[CHOOSE n \in DOMAIN c.block_hashes : TRUE], <<>>)
    ELSE IF fail = 1
         THEN DbErr(c, <<<<"block_hash", number>>>>)
         ELSE DbOk([c EXCEPT !.block_hashes =
                        Put(@, number, block_hash_ref(pr, number))],
                   block_hash_ref(pr, number),
                   <<<<"block_hash", number>>>>)

\* database.rs:117-123
block_hash(c, pr, number, fail) ==
    IF number \in DOMAIN c.block_hashes
    THEN DbOk(c, c.block_hashes[number], <<>>)
    ELSE IF fail = 1
         THEN DbErr(c, <<<<"block_hash", number>>>>)
         ELSE DbOk([c EXCEPT !.block_hashes =
                        Put(@, number, block_hash_ref(pr, number))],
                   block_hash_ref(pr, number),
                   <<<<"block_hash", number>>>>)


(***************************************************************************)
(* What is known of a key: the value returned by its first successful read *)
(* or, from then on, the value insert_account seeded; of a storage slot,   *)
(* the value returned by its latest successful read that did not find it   *)
(* in the cache or, from then on, the value insert_account seeded.         *)
(***************************************************************************)
NothingKnown ==
    [accounts |-> EmptyMap, storage |-> EmptyMap, contracts |-> EmptyMap,
     block_hashes |-> EmptyMap,
     \* per address, what its latest insert_account seeded
     seeds |-> EmptyMap]

Learn(m, k, v) == IF k \in DOMAIN m THEN m ELSE Put(m, k, v)

\* the storage keys of `address` seeded with the map st
Seeded(m, address, st) ==
    [x \in DOMAIN m \cup {<<address, sl>> : sl \in DOMAIN st} |->
        IF x \in {<<address, sl>> : sl \in DOMAIN st} THEN st[x[2]] ELSE m[x]]

\* the value the cache holds for a key, and whether it holds one
HasAccount(c, a) == a \in DOMAIN c.accounts
HasSlot(c, a, sl) == HasAccount(c, a) /\ sl \in DOMAIN c.accounts[a].storage

\* the last operation: its result and provider calls, and from the state
\* before it: whether the cache held the key (hit) and the account of the
\* key's address (acc_hit), and what was known of the key
NoRet == [op |-> "none", key |-> <<>>, ok |-> TRUE, value |-> 0, db_calls |-> <<>>,
          hit |-> FALSE, acc_hit |-> FALSE, was_known |-> FALSE, known_value |-> 0]

\* the storage maps insert_account seeds
SeedStorages ==
    {EmptyMap, Put(EmptyMap, "s1", 9), Put(EmptyMap, "s2", 9),
     Put(Put(EmptyMap, "s1", 9), "s2", 9)}

BuildIdle ==
    /\ pool = <<>>
    /\ block_gas_limit = 0
    /\ best_payload = [some |-> FALSE, fees |-> 0]
    /\ chain_spec = [cancun |-> FALSE, parent_cancun |-> FALSE, prague |-> FALSE]
    /\ cancel = FALSE
    /\ pc = "idle"
    /\ best_txs = NewBestTransactions
    /\ cumulative_gas_used = 0
    /\ sum_blob_gas_used = 0
    /\ executed_txs = <<>>
    /\ receipts = <<>>
    /\ total_fees = 0
    /\ outcome = "none"
    /\ steps = <<>>
    /\ block = NoBlock
    /\ trail = <<>>

InitCache ==
    /\ BuildIdle
    /\ provider \in Providers
    /\ cached_reads = DefaultCachedReads
    /\ ret = NoRet
    /\ known = NothingKnown
    /\ nops = 0
    /\ AdapterIdle
    /\ attempt = <<>>
    /\ rollup = <<>>

\* the effects of a read that returned r
Returned(op, key, r, hit, was_known, known_value) ==
    /\ cached_reads' = r.cached
    /\ ret' = [op |-> op, key |-> key, ok |-> r.ok, value |-> r.value,
               db_calls |-> r.db_calls, hit |-> hit,
               acc_hit |-> (op \in {"basic", "storage"}
                            /\ HasAccount(cached_reads, key[1])),
               was_known |-> was_known, known_value |-> known_value]
    /\ nops' = nops + 1
    /\ UNCHANGED <<provider, buildVars, adapterVars, attempt, rollup>>

ReadBasic ==
    /\ nops < MaxOps
    /\ \E a \in Addresses, fail \in 0..1 :
        LET r == basic(cached_reads, provider, a, fail) IN
        /\ Returned("basic", <<a>>, r, HasAccount(cached_reads, a),
                    a \in DOMAIN known.accounts,
                    IF a \in DOMAIN known.accounts THEN known.accounts[a] ELSE 0)
        /\ known' = IF r.ok THEN [known EXCEPT !.accounts = Learn(@, a, r.value)]
                    ELSE known

ReadStorage ==
    /\ nops < MaxOps
    /\ \E a \in Addresses, sl \in Slots, fail \in 0..2 :
        LET r == storage(cached_reads, provider, a, sl, fail) IN
        /\ Returned("storage", <<a, sl>>, r, HasSlot(cached_reads, a, sl),
                    <<a, sl>> \in DOMAIN known.storage,
                    IF <<a, sl>> \in DOMAIN known.storage
                    THEN known.storage[<<a, sl>>] ELSE 0)
        /\ known' = IF r.ok /\ ~HasSlot(cached_reads, a, sl)
                    THEN [known EXCEPT !.storage = Put(@, <<a, sl>>, r.value)]
                    ELSE known

ReadCodeByHash ==
    /\ nops < MaxOps
    /\ \E h \in CodeHashes, fail \in 0..1 :
        LET r == code_by_hash(cached_reads, provider, h, fail) IN
        /\ Returned("code_by_hash", <<h>>, r, h \in DOMAIN cached_reads.contracts,
                    h \in DOMAIN known.contracts,
                    IF h \in DOMAIN known.contracts THEN known.contracts[h] ELSE 0)
        /\ known' = IF r.ok THEN [known EXCEPT !.contracts = Learn(@, h, r.value)]
                    ELSE known

ReadBlockHash ==
    /\ nops < MaxOps
    /\ \E n \in BlockNumbers, fail \in 0..1 :
        LET r == block_hash(cached_reads, provider, n, fail) IN
        /\ Returned("block_hash", <<n>>, r, n \in DOMAIN cached_reads.block_hashes,
                    n \in DOMAIN known.block_hashes,
                    IF n \in DOMAIN known.block_hashes THEN known.block_hashes[n] ELSE 0)
        /\ known' = IF r.ok THEN [known EXCEPT !.block_hashes = Learn(@, n, r.value)]
                    ELSE known

InsertAccount ==
    /\ nops < MaxOps
    /\ \E a \in Addresses, st \in SeedStorages :
        /\ cached_reads' = insert_account(cached_reads, a, "q", st)
        /\ ret' = [NoRet EXCEPT !.op = "insert_account", !.key = <<a, st>>]
        /\ known' = [known EXCEPT !.accounts = Put(@, a, "q"),
                                  !.storage = Seeded(@, a, st),
                                  !.seeds = Put(@, a, [info |-> "q", storage |-> st])]
    /\ nops' = nops + 1
    /\ UNCHANGED <<provider, buildVars, adapterVars, attempt, rollup>>

NextCache ==
    \/ ReadBasic
    \/ ReadStorage
    \/ ReadCodeByHash
    \/ ReadBlockHash
    \/ InsertAccount

SpecCache == InitCache /\ [][NextCache]_vars


(***************************************************************************)
(* SyncCachedReads (database.rs:183-268), the cache whose keys carry a     *)
(* chain id, and the conversions between it and CachedReads                *)
(* (database.rs:156-181).  A chain-qualified key is <<chain_id, key>>.     *)
(***************************************************************************)
ChainIds == {1, 2}

\* database.rs:183-188  SyncCachedReads::default()
DefaultSyncCachedReads ==
    [accounts |-> EmptyMap, contracts |-> EmptyMap, block_hashes |-> EmptyMap]

\* the map m with every key k replaced by <<chain_id, k>>
Tagged(m, chain_id) ==
    [k \in {<<chain_id, x>> : x \in DOMAIN m} |-> m[k[2]]]

\* a to_sync_cached_reads that loses the block hashes
to_sync_cached_reads_LosesBlockHashes(cache_reads, chain_id) ==
    [accounts |-> Tagged(cache_reads.accounts, chain_id),
     contracts |-> Tagged(cache_reads.contracts, chain_id),
     block_hashes |-> EmptyMap]

\* database.rs:165-181
to_sync_cached_reads(cache_reads, chain_id) ==
    [accounts |-> Tagged(cache_reads.accounts, chain_id),
     contracts |-> Tagged(cache_reads.contracts, chain_id),
     block_hashes |-> Tagged(cache_reads.block_hashes, chain_id)]

\* into_iter().map(|(k, v)| (k.1, v)).collect() into a HashMap: the keys are
\* the second components; where several pairs give the same key the map
\* keeps the pair inserted last, and the iteration order of the source
\* HashMap is unspecified: every choice among them is a possible result.
Collected(m) ==
    {g \in [{k[2] : k \in DOMAIN m} -> {m[k] : k \in DOMAIN m}] :
        \A x \in DOMAIN g : \E k \in DOMAIN m : k[2] = x /\ g[x] = m[k]}

\* database.rs:156-163  impl From<SyncCachedReads> for CachedReads: the plain
\* caches `from` may return
From(sync) ==
    {[accounts |-> a, contracts |-> c, block_hashes |-> b] :
        a \in Collected(sync.accounts),
        c \in Collected(sync.contracts),
        b \in Collected(sync.block_hashes)}

\* database.rs:199-206  SyncCachedReads::insert_account
SyncCachedReads_insert_account(c, address, info, st) ==
    [c EXCEPT !.accounts = Put(@, address, [info |-> info, storage |-> st])]

\* the SyncDatabaseRef behind the chain-qualified cache
sync_code_by_hash_ref(chain_id, code_hash) == <<"code", chain_id, code_hash>>

sync_block_hash_ref(chain_id, number) == <<"hash", chain_id, number>>

\* database.rs:230-236  SyncCachedReadsDbMut::code_by_hash
SyncCachedReads_code_by_hash(c, chain_id, code_hash, fail) ==
    IF <<chain_id, code_hash>> \in DOMAIN c.contracts
    THEN DbOk(c, c.contracts[<<chain_id, code_hash>>], <<>>)
    ELSE IF fail = 1
         THEN DbErr(c, <<<<"code", chain_id, code_hash>>>>)
         ELSE DbOk([c EXCEPT !.contracts =
                        Put(@, <<chain_id, code_hash>>,
                            sync_code_by_hash_ref(chain_id, code_hash))],
                   sync_code_by_hash_ref(chain_id, code_hash),
                   <<<<"code", chain_id, code_hash>>>>)

\* database.rs:261-267  SyncCachedReadsDbMut::block_hash
SyncCachedReads_block_hash(c, chain_id, number, fail) ==
    IF <<chain_id, number>> \in DOMAIN c.block_hashes
    THEN DbOk(c, c.block_hashes[<<chain_id, number>>], <<>>)
    ELSE IF fail = 1
         THEN DbErr(c, <<<<"block_hash", chain_id, number>>>>)
         ELSE DbOk([c EXCEPT !.block_hashes =
                        Put(@, <<chain_id, number>>,
                            sync_block_hash_ref(chain_id, number))],
                   sync_block_hash_ref(chain_id, number),
                   <<<<"block_hash", chain_id, number>>>>)

\* the plain caches a conversion starts from
CachedAccounts ==
    {NewCachedAccount(NoAccount), [info |-> "p", storage |-> Put(EmptyMap, "s1", 5)]}

PlainCaches ==
    {[accounts |-> a, contracts |-> c, block_hashes |-> b] :
        a \in UNION {[A -> CachedAccounts] : A \in SUBSET Addresses},
        c \in {[h \in H |-> code_by_hash_ref(<<>>, h)] : H \in SUBSET CodeHashes},
        b \in {[n \in N |-> block_hash_ref(<<>>, n)] : N \in SUBSET BlockNumbers}}

\* the last conversion: the plain cache and chain id the chain-qualified cache
\* was made from, whether it still is exactly what to_sync_cached_reads
\* returned (fresh), the chain-qualified cache `from` consumed (src) and
\* whether that one was fresh (round_trip)
NoConv == [op |-> "none", chain_id |-> 0, origin |-> DefaultCachedReads,
           fresh |-> FALSE, src |-> DefaultSyncCachedReads, round_trip |-> FALSE]

InitConv ==
    /\ BuildIdle
    /\ provider = <<>>
    /\ cached_reads \in PlainCaches
    /\ ret = NoRet
    /\ known = NothingKnown
    /\ nops = 0
    /\ sync_cached_reads = DefaultSyncCachedReads
    /\ conv = NoConv
    /\ borrows = 0
    /\ call = <<>>
    /\ attempt = <<>>
    /\ rollup = <<>>

convRest == <<buildVars, provider, ret, known, borrows, call, attempt, rollup>>

\* to_sync_cached_reads(cache_reads, chain_id): the plain cache is moved in
ToSync ==
    /\ nops < MaxConv
    /\ \E chain_id \in ChainIds :
        /\ sync_cached_reads' = to_sync_cached_reads(cached_reads, chain_id)
        /\ conv' = [op |-> "to_sync", chain_id |-> chain_id, origin |-> cached_reads,
                    fresh |-> TRUE, src |-> conv.src, round_trip |-> FALSE]
    /\ cached_reads' = DefaultCachedReads
    /\ nops' = nops + 1
    /\ UNCHANGED convRest

\* CachedReads::from(sync): the chain-qualified cache is moved in
FromSync ==
    /\ nops < MaxConv
    /\ cached_reads' \in From(sync_cached_reads)
    /\ conv' = [conv EXCEPT !.op = "from", !.src = sync_cached_reads,
                             !.fresh = FALSE, !.round_trip = conv.fresh]
    /\ sync_cached_reads' = DefaultSyncCachedReads
    /\ nops' = nops + 1
    /\ UNCHANGED convRest

\* the effects on the chain-qualified cache of an operation of its own
SyncChanged(op, c) ==
    /\ sync_cached_reads' = c
    /\ conv' = [conv EXCEPT !.op = op, !.fresh = (@ /\ c = sync_cached_reads),
                             !.round_trip = FALSE]
    /\ nops' = nops + 1
    /\ UNCHANGED <<cached_reads, convRest>>

SyncInsertAccount ==
    /\ nops < MaxConv
    /\ \E chain_id \in ChainIds, a \in Addresses :
        SyncChanged("insert_account",
                    SyncCachedReads_insert_account(sync_cached_reads, <<chain_id, a>>,
                                                   "q", Put(EmptyMap, "s1", 9)))

SyncReadCodeByHash ==
    /\ nops < MaxConv
    /\ \E chain_id \in ChainIds, h \in CodeHashes, fail \in 0..1 :
        SyncChanged("code_by_hash",
                    SyncCachedReads_code_by_hash(sync_cached_reads, chain_id, h, fail).cached)

SyncReadBlockHash ==
    /\ nops < MaxConv
    /\ \E chain_id \in ChainIds, n \in BlockNumbers, fail \in 0..1 :
        SyncChanged("block_hash",
                    SyncCachedReads_block_hash(sync_cached_reads, chain_id, n, fail).cached)

NextConv ==
    \/ ToSync
    \/ FromSync
    \/ SyncInsertAccount
    \/ SyncReadCodeByHash
    \/ SyncReadBlockHash

SpecConv == InitConv /\ [][NextConv]_vars


(***************************************************************************)
(* The plain cache and the chain-qualified cache side by side              *)
(* (database.rs:73-124 and 217-259): the same reads and insert_account     *)
(* calls run on both, every key of the second tagged with one chain id,    *)
(* over a provider that is the view at that chain of the SyncDatabaseRef.  *)
(* ret is the result of the plain cache, conv that of the other.           *)
(***************************************************************************)
\* the SyncDatabaseRef behind the chain-qualified cache, for the accounts
\* and the storage of the chain pr is the view of
sync_basic_ref(pr, address) == basic_ref(pr, address[2])

sync_storage_ref(pr, address, index) == storage_ref(pr, address[2], index)

\* database.rs:220-228  SyncCachedReadsDbMut::basic
SyncCachedReads_basic(c, pr, address, fail) ==
    IF address \in DOMAIN c.accounts
    THEN DbOk(c, c.accounts[address].info, <<>>)
    ELSE IF fail = 1
         THEN DbErr(c, <<<<"basic", address>>>>)
         ELSE DbOk([c EXCEPT !.accounts =
                        Put(@, address, NewCachedAccount(sync_basic_ref(pr, address)))],
                   sync_basic_ref(pr, address),
                   <<<<"basic", address>>>>)

\* a chain-qualified storage that asks for the slot of an absent account too
SyncCachedReads_storage_AsksAbsent(c, pr, address, index, fail) ==
    IF address \in DOMAIN c.accounts
    THEN IF index \in DOMAIN c.accounts[address].storage
         THEN DbOk(c, c.accounts[address].storage[index], <<>>)
         ELSE IF fail = 1
              THEN DbErr(c, <<<<"storage", address, index>>>>)
              ELSE DbOk([c EXCEPT !.accounts[address].storage =
                             Put(@, index, sync_storage_ref(pr, address, index))],
                        sync_storage_ref(pr, address, index),
                        <<<<"storage", address, index>>>>)
    ELSE IF fail = 1
         THEN DbErr(c, <<<<"basic", address>>>>)
         ELSE IF fail = 2
              THEN DbErr(c, <<<<"basic", address>>, <<"storage", address, index>>>>)
              ELSE DbOk([c EXCEPT !.accounts =
                             Put(@, address,
                                 [info |-> sync_basic_ref(pr, address),
                                  storage |-> Put(EmptyMap, index,
                                                  sync_storage_ref(pr, address, index))])],
                        sync_storage_ref(pr, address, index),
                        <<<<"basic", address>>, <<"storage", address, index>>>>)

\* database.rs:238-259  SyncCachedReadsDbMut::storage
SyncCachedReads_storage(c, pr, address, index, fail) ==
    IF address \in DOMAIN c.accounts
    THEN IF index \in DOMAIN c.accounts[address].storage
         THEN DbOk(c, c.accounts[address].storage[index], <<>>)
         ELSE IF fail = 1
              THEN DbErr(c, <<<<"storage", address, index>>>>)
              ELSE DbOk([c EXCEPT !.accounts[address].storage =
                             Put(@, index, sync_storage_ref(pr, address, index))],
                        sync_storage_ref(pr, address, index),
                        <<<<"storage", address, index>>>>)
    ELSE \* acc needs to be loaded for us to access slots.
         IF fail = 1
         THEN DbErr(c, <<<<"basic", address>>>>)
         ELSE IF sync_basic_ref(pr, address) # NoAccount
              THEN IF fail = 2
                   THEN DbErr(c, <<<<"basic", address>>, <<"storage", address, index>>>>)
                   ELSE DbOk([c EXCEPT !.accounts =
                                  Put(@, address,
                                      [info |-> sync_basic_ref(pr, address),
                                       storage |-> Put(EmptyMap, index,
                                                       sync_storage_ref(pr, address,
                                                                        index))])],
                             sync_storage_ref(pr, address, index),
                             <<<<"basic", address>>, <<"storage", address, index>>>>)
              ELSE DbOk([c EXCEPT !.accounts =
                             Put(@, address, NewCachedAccount(NoAccount))],
                        0,
                        <<<<"basic", address>>>>)

\* the provider of each chain
ChainViews ==
    {[basic |-> pr.basic, chain |-> chain_id] : pr \in Providers, chain_id \in ChainIds}

InitLockstep ==
    /\ BuildIdle
    /\ provider \in ChainViews
    /\ cached_reads = DefaultCachedReads
    /\ sync_cached_reads = DefaultSyncCachedReads
    /\ ret = NoRet
    /\ conv = NoRet
    /\ known = NothingKnown
    /\ nops = 0
    /\ borrows = 0
    /\ call = <<>>
    /\ attempt = <<>>
    /\ rollup = <<>>

\* the effects of one operation that returned r on the plain cache and s on
\* the chain-qualified one
BothReturned(op, key, r, s) ==
    /\ cached_reads' = r.cached
    /\ sync_cached_reads' = s.cached
    /\ ret' = [NoRet EXCEPT !.op = op, !.key = key, !.ok = r.ok, !.value = r.value,
                            !.db_calls = r.db_calls]
    /\ conv' = [NoRet EXCEPT !.op = op, !.key = key, !.ok = s.ok, !.value = s.value,
                             !.db_calls = s.db_calls]
    /\ nops' = nops + 1
    /\ UNCHANGED <<buildVars, provider, known, borrows, call, attempt, rollup>>

BothBasic ==
    /\ nops < MaxOps
    /\ \E a \in Addresses, fail \in 0..1 :
        BothReturned("basic", <<a>>,
                     basic(cached_reads, provider, a, fail),
                     SyncCachedReads_basic(sync_cached_reads, provider,
                                           <<provider.chain, a>>, fail))

BothStorage ==
    /\ nops < MaxOps
    /\ \E a \in Addresses, sl \in Slots, fail \in 0..2 :
        BothReturned("storage", <<a, sl>>,
                     storage(cached_reads, provider, a, sl, fail),
                     SyncCachedReads_storage(sync_cached_reads, provider,
                                             <<provider.chain, a>>, sl, fail))

BothCodeByHash ==
    /\ nops < MaxOps
    /\ \E h \in CodeHashes, fail \in 0..1 :
        BothReturned("code_by_hash", <<h>>,
                     code_by_hash(cached_reads, provider, h, fail),
                     SyncCachedReads_code_by_hash(sync_cached_reads, provider.chain,
                                                  h, fail))

BothBlockHash ==
    /\ nops < MaxOps
    /\ \E n \in BlockNumbers, fail \in 0..1 :
        BothReturned("block_hash", <<n>>,
                     block_hash(cached_reads, provider, n, fail),
                     SyncCachedReads_block_hash(sync_cached_reads, provider.chain,
                                                n, fail))

BothInsertAccount ==
    /\ nops < MaxOps
    /\ \E a \in Addresses, st \in SeedStorages :
        BothReturned("insert_account", <<a, st>>,
                     DbOk(insert_account(cached_reads, a, "q", st), 0, <<>>),
                     DbOk(SyncCachedReads_insert_account(sync_cached_reads,
                                                         <<provider.chain, a>>, "q", st),
                          0, <<>>))

NextLockstep ==
    \/ BothBasic
    \/ BothStorage
    \/ BothCodeByHash
    \/ BothBlockHash
    \/ BothInsertAccount

SpecLockstep == InitLockstep /\ [][NextLockstep]_vars


(***************************************************************************)
(* CachedReadsDBRef (database.rs:131-154): the DatabaseRef the build hands *)
(* to revm, a RefCell around CachedReadsDbMut.  Each of its four methods   *)
(* takes inner.borrow_mut(), calls the method of CachedReadsDbMut, which   *)
(* on a miss calls the provider, and drops the guard when it returns; the  *)
(* build takes one more borrow_mut() to compute the state root             *)
(* (builder.rs:380-383).  RefCell::borrow_mut panics when a guard is live; *)
(* the only way to reach it then is a provider that calls back into the    *)
(* adapter while it is being called.                                       *)
(***************************************************************************)
\* a borrow_mut that hands out a second guard while one is live
borrow_mut_Unchecked(n) == [ok |-> TRUE, borrows |-> n + 1]

\* database.rs:139  self.inner.borrow_mut(): a guard when none is live, a
\* panic (BorrowMutError) otherwise
borrow_mut(n) ==
    IF n = 0 THEN [ok |-> TRUE, borrows |-> 1] ELSE [ok |-> FALSE, borrows |-> n]

\* the method of CachedReadsDbMut a call of the adapter runs
CallResult(c, pr, op, key, fail) ==
    CASE op = "basic" -> basic(c, pr, key[1], fail)
      [] op = "storage" -> storage(c, pr, key[1], key[2], fail)
      [] op = "code_by_hash" -> code_by_hash(c, pr, key[1], fail)
      [] op = "block_hash" -> block_hash(c, pr, key[1], fail)

CallKeys ==
    [basic |-> {<<a>> : a \in Addresses},
     storage |-> Addresses \X Slots,
     code_by_hash |-> {<<h>> : h \in CodeHashes},
     block_hash |-> {<<n>> : n \in BlockNumbers}]

\* phase: "idle" | "in_call" | "state_root" | "released" | "panicked";
\* before: the cache when the call in progress began; second_attempt: the
\* last step was a borrow_mut() while a guard was live
NoCall == [phase |-> "idle", op |-> "none", key |-> <<>>,
           before |-> DefaultCachedReads, second_attempt |-> FALSE]

InitBorrow ==
    /\ BuildIdle
    /\ provider \in Providers
    /\ cached_reads = DefaultCachedReads
    /\ ret = NoRet
    /\ known = NothingKnown
    /\ nops = 0
    /\ sync_cached_reads = <<>>
    /\ conv = <<>>
    /\ borrows = 0
    /\ call = NoCall
    /\ attempt = <<>>
    /\ rollup = <<>>

borrowRest == <<buildVars, provider, ret, known, sync_cached_reads, conv, attempt, rollup>>

\* database.rs:138-152  revm calls basic_ref, code_by_hash_ref, storage_ref or
\* block_hash_ref of the adapter: the method takes the guard
RefCall ==
    /\ call.phase = "idle"
    /\ nops < MaxCalls
    /\ borrow_mut(borrows).ok
    /\ borrows' = borrow_mut(borrows).borrows
    /\ \E op \in DOMAIN CallKeys : \E key \in CallKeys[op] :
          call' = [phase |-> "in_call", op |-> op, key |-> key,
                   before |-> cached_reads, second_attempt |-> FALSE]
    /\ UNCHANGED <<cached_reads, nops, borrowRest>>

\* database.rs:138-152  the method of CachedReadsDbMut returns (a value or the
\* provider's error) and the guard is dropped
RefReturn ==
    /\ call.phase = "in_call"
    /\ \E fail \in 0..2 :
          cached_reads' = CallResult(cached_reads, provider, call.op, call.key, fail).cached
    /\ borrows' = borrows - 1
    /\ call' = [call EXCEPT !.phase = "idle", !.second_attempt = FALSE]
    /\ nops' = nops + 1
    /\ UNCHANGED borrowRest

\* builder.rs:380-383  the build borrows the adapter to compute the state root
StateRootBorrow ==
    /\ call.phase = "idle"
    /\ borrow_mut(borrows).ok
    /\ borrows' = borrow_mut(borrows).borrows
    /\ call' = [phase |-> "state_root", op |-> "state_root", key |-> <<>>,
                before |-> cached_reads, second_attempt |-> FALSE]
    /\ UNCHANGED <<cached_reads, nops, borrowRest>>

\* builder.rs:382-383  state_root returns (a root or an error) and the guard
\* is dropped at the end of the block
StateRootRelease ==
    /\ call.phase = "state_root"
    /\ borrows' = borrows - 1
    /\ call' = [call EXCEPT !.phase = "released", !.second_attempt = FALSE]
    /\ UNCHANGED <<cached_reads, nops, borrowRest>>

\* the provider is being called with the guard live
ProviderRunning ==
    \/ call.phase = "state_root"
    \/ /\ call.phase = "in_call"
       /\ CallResult(cached_reads, provider, call.op, call.key, 0).db_calls # <<>>

\* database.rs:138-152  the provider calls a method of the adapter while it is
\* being called: borrow_mut() panics, and the unwinding drops the live guard
\* before the method of CachedReadsDbMut has stored anything
Reenter ==
    /\ ProviderRunning
    /\ IF borrow_mut(borrows).ok
       THEN /\ borrows' = borrow_mut(borrows).borrows
            /\ call' = [call EXCEPT !.second_attempt = TRUE]
       ELSE /\ borrows' = 0
            /\ call' = [call EXCEPT !.phase = "panicked", !.second_attempt = TRUE]
    /\ UNCHANGED <<cached_reads, nops, borrowRest>>

NextBorrow ==
    \/ RefCall
    \/ RefReturn
    \/ StateRootBorrow
    \/ StateRootRelease
    \/ Reenter

SpecBorrow == InitBorrow /\ [][NextBorrow]_vars


(***************************************************************************)
(* The cache across one build attempt (SpecReturn).                        *)
(* builder.rs:176-181  default_taiko_payload_builder takes cached_reads    *)
(* out of its arguments and builds its State over cached_reads.as_db(..);  *)
(* every read of the hooks and of the EVM that the State does not answer   *)
(* itself goes through the adapter to the cache.  The function never calls *)
(* insert_account.  A provider error ends the attempt with an error (? in  *)
(* the hooks, EVMError::Database in the loop); Cancelled and the errors    *)
(* drop the cache, Aborted (builder.rs:340) and Better (builder.rs:448)    *)
(* carry it.                                                               *)
(***************************************************************************)
\* number of reads that reach the cache in one attempt
MaxReads == 2

\* an outcome that carries a new cache
BuildOutcome_FreshCache(kind, c) ==
    [kind |-> kind,
     cached_reads |-> IF kind \in {"Aborted", "Better"}
                      THEN Some(DefaultCachedReads) ELSE None]

\* builder.rs:242, 340, 448  BuildOutcome::Cancelled,
\* BuildOutcome::Aborted { fees, cached_reads },
\* BuildOutcome::Better { payload, cached_reads }, or an Err
BuildOutcome(kind, c) ==
    [kind |-> kind,
     cached_reads |-> IF kind \in {"Aborted", "Better"} THEN Some(c) ELSE None]

NoOutcome == [kind |-> "none", cached_reads |-> None]

InitReturn ==
    /\ BuildIdle
    /\ provider \in Providers
    /\ cached_reads \in PlainCaches
    /\ ret = NoRet
    /\ known = NothingKnown
    /\ nops = 0
    /\ AdapterIdle
    /\ attempt = [args_cached_reads |-> cached_reads, db_calls |-> {},
                  outcome |-> NoOutcome]
    /\ rollup = <<>>

\* a read of the attempt reaches the cache; a provider error ends the attempt
AttemptRead ==
    /\ attempt.outcome = NoOutcome
    /\ nops < MaxReads
    /\ \E op \in DOMAIN CallKeys : \E key \in CallKeys[op] : \E fail \in 0..2 :
        LET r == CallResult(cached_reads, provider, op, key, fail) IN
        /\ cached_reads' = r.cached
        /\ ret' = [NoRet EXCEPT !.op = op, !.key = key, !.ok = r.ok,
                                !.value = r.value, !.db_calls = r.db_calls]
        /\ attempt' = [attempt EXCEPT
                         !.db_calls = IF r.ok THEN @ \cup Range(r.db_calls) ELSE @,
                         !.outcome = IF r.ok THEN @ ELSE BuildOutcome("Err", cached_reads')]
    /\ nops' = nops + 1
    /\ UNCHANGED <<buildVars, provider, known, adapterVars, rollup>>

\* the attempt returns
AttemptReturn ==
    /\ attempt.outcome = NoOutcome
    /\ \E kind \in {"Cancelled", "Aborted", "Better", "Err"} :
          attempt' = [attempt EXCEPT !.outcome = BuildOutcome(kind, cached_reads)]
    /\ UNCHANGED <<buildVars, cacheVars, adapterVars, rollup>>

NextReturn ==
    \/ AttemptRead
    \/ AttemptReturn

SpecReturn == InitReturn /\ [][NextReturn]_vars

(***************************************************************************)
(* Two attempts on the same parent (SpecWarm): one is handed an empty      *)
(* cache, the other the cache a previous attempt on that parent filled     *)
(* through its reads (builder.rs:176-181, database.rs:43-51).  What an     *)
(* attempt does is determined by its arguments and by what its reads       *)
(* return, so the two attempts make the same reads as long as these        *)
(* return the same values.  cached_reads is the warm cache; attempt holds  *)
(* the cold one, what each read returned on either side and the provider   *)
(* calls made.  The provider answers every call.                           *)
(***************************************************************************)
NoAttempts ==
    [phase |-> "previous", cold |-> DefaultCachedReads,
     warm_results |-> <<>>, cold_results |-> <<>>,
     warm_calls |-> <<>>, cold_calls |-> <<>>]

InitWarm ==
    /\ BuildIdle
    /\ provider \in Providers
    /\ cached_reads = DefaultCachedReads
    /\ ret = NoRet
    /\ known = NothingKnown
    /\ nops = 0
    /\ AdapterIdle
    /\ attempt = NoAttempts
    /\ rollup = <<>>

\* a read of the previous attempt fills the cache; a failed one leaves it
PreviousAttemptRead ==
    /\ attempt.phase = "previous"
    /\ nops < MaxReads
    /\ \E op \in DOMAIN CallKeys : \E key \in CallKeys[op] : \E fail \in 0..2 :
        LET r == CallResult(cached_reads, provider, op, key, fail) IN
        /\ cached_reads' = r.cached
        /\ ret' = [NoRet EXCEPT !.op = op, !.key = key, !.ok = r.ok,
                                !.value = r.value, !.db_calls = r.db_calls]
    /\ nops' = nops + 1
    /\ UNCHANGED <<buildVars, provider, known, adapterVars, attempt, rollup>>

\* builder.rs:176  the two attempts take the cache of their arguments
AttemptsStart ==
    /\ attempt.phase = "previous"
    /\ attempt' = [attempt EXCEPT !.phase = "running"]
    /\ UNCHANGED <<buildVars, cacheVars, adapterVars, rollup>>

\* the next read of the two attempts, through the adapter of each
AttemptsRead ==
    /\ attempt.phase = "running"
    /\ Len(attempt.warm_results) < MaxReads
    /\ \E op \in DOMAIN CallKeys : \E key \in CallKeys[op] :
        LET w == CallResult(cached_reads, provider, op, key, 0)
            c == CallResult(attempt.cold, provider, op, key, 0)
        IN
        /\ cached_reads' = w.cached
        /\ ret' = [NoRet EXCEPT !.op = op, !.key = key, !.ok = w.ok,
                                !.value = w.value, !.db_calls = w.db_calls]
        /\ attempt' = [attempt EXCEPT
                         !.cold = c.cached,
                         !.warm_results = Append(@, [op |-> op, key |-> key,
                                                     ok |-> w.ok, value |-> w.value]),
                         !.cold_results = Append(@, [op |-> op, key |-> key,
                                                     ok |-> c.ok, value |-> c.value]),
                         !.warm_calls = @ \o w.db_calls,
                         !.cold_calls = @ \o c.db_calls]
    /\ UNCHANGED <<buildVars, provider, known, nops, adapterVars, rollup>>

NextWarm ==
    \/ PreviousAttemptRead
    \/ AttemptsStart
    \/ AttemptsRead

SpecWarm == InitWarm /\ [][NextWarm]_vars

(***************************************************************************)
(* Rollup (bin/reth/src/main.rs:205-494), the execution extension the node *)
(* binary installs.  start() receives the chain-state notifications one by *)
(* one; for each it reverts the reverted chain, commits the committed      *)
(* chain and reports the committed tip with ExExEvent::FinishedHeight.     *)
(* rollup.log is the calls start() made, in order, with the notification   *)
(* each was made for and its result; rollup.events is what was sent on     *)
(* ctx.events.                                                             *)
(***************************************************************************)
\* number of notifications the node delivers
MaxNotifications == 2
\* number of rollup-contract events decoded from one committed chain
MaxRollupEvents == 2

TipNumbers == {1, 2}

\* CanonStateNotification: ChainCommitted { new }, ChainReorged { old, new }
\* and ChainReverted { old }, by what reverted_chain() and committed_chain()
\* return: a chain, given by its tip number, or None; start() does not look
\* at the number of a reverted chain
Notifications ==
    {[reverted |-> r, committed |-> c] :
        r \in {None, Some(1)},
        c \in {None} \cup {Some(t) : t \in TipNumbers}}
    \ {[reverted |-> None, committed |-> None]}

\* what commit meets on one BlockProposed event: the block is executed;
\* execute_block fails (main.rs:380-388); abi_decode or decode_transactions
\* returns an error (main.rs:267, 319-323); inject_tx or advance_block fails
\* under unwrap() (main.rs:280-284, 303-307)
EventOutcomes == {"executed", "execute_failed", "decode_error", "panic"}

EventOutcomeSeqs ==
    UNION {[1..n -> EventOutcomes] : n \in 0..MaxRollupEvents}

\* a commit that returns the error of a failed block execution
RECURSIVE commit_FailsOnExecutionError(_)
commit_FailsOnExecutionError(events) ==
    IF events = <<>> THEN "Ok"
    ELSE IF Head(events) \in {"decode_error", "execute_failed"} THEN "Err"
    ELSE IF Head(events) = "panic" THEN "panic"
    ELSE commit_FailsOnExecutionError(Tail(events))

\* main.rs:235-429  Rollup::commit over the events of the chain, in order:
\* `?` returns the first error, unwrap() panics, a failed execution is logged
\* and the loop goes on
RECURSIVE commit(_)
commit(events) ==
    IF events = <<>> THEN "Ok"
    ELSE IF Head(events) = "decode_error" THEN "Err"
    ELSE IF Head(events) = "panic" THEN "panic"
    ELSE commit(Tail(events))

\* main.rs:258-392  the events commit gets to before it returns or panics
RECURSIVE Handled(_)
Handled(events) ==
    IF events = <<>> THEN <<>>
    ELSE IF Head(events) \in {"decode_error", "panic"} THEN <<Head(events)>>
    ELSE <<Head(events)>> \o Handled(Tail(events))

\* main.rs:435-494  Rollup::revert: it decodes and reverses the events and
\* returns Ok(()); the rest of its body is commented out
revert(chain) == "Ok"

RollupNew ==
    [pc |-> "recv", notification |-> <<>>, received |-> <<>>, log |-> <<>>,
     events |-> <<>>, result |-> "running"]

InitRollup ==
    /\ BuildIdle
    /\ provider = <<>>
    /\ cached_reads = <<>>
    /\ ret = <<>>
    /\ known = <<>>
    /\ nops = 0
    /\ AdapterIdle
    /\ attempt = <<>>
    /\ rollup = RollupNew

rollupRest == <<buildVars, cacheVars, adapterVars, attempt>>

\* the entry of the log for a call made for the notification in hand, with
\* what commit met on the events it got to
Called(call_, result, outcomes) ==
    [call |-> call_, n |-> Len(rollup.received), result |-> result,
     outcomes |-> outcomes]

RollupEnds(result) == [rollup EXCEPT !.pc = "done", !.result = result]

\* main.rs:217  notifications.recv().await returns Some(notification)
RollupRecv ==
    /\ rollup.pc = "recv"
    /\ Len(rollup.received) < MaxNotifications
    /\ \E notification \in Notifications :
          rollup' = [rollup EXCEPT !.pc = "revert",
                                   !.notification = notification,
                                   !.received = Append(@, notification)]
    /\ UNCHANGED rollupRest

\* main.rs:217, 228  notifications.recv().await returns None: start returns Ok(())
RollupClosed ==
    /\ rollup.pc = "recv"
    /\ rollup' = RollupEnds("Ok")
    /\ UNCHANGED rollupRest

\* main.rs:218-220  if let Some(reverted_chain) = .. { self.revert(..)?; }
RollupRevert ==
    /\ rollup.pc = "revert"
    /\ rollup' =
          IF rollup.notification.reverted = None
          THEN [rollup EXCEPT !.pc = "commit"]
          ELSE LET r == revert(rollup.notification.reverted[1])
                   logged == [rollup EXCEPT !.log = Append(@, Called("revert", r, {}))]
               IN  IF r = "Ok" THEN [logged EXCEPT !.pc = "commit"]
                   ELSE [logged EXCEPT !.pc = "done", !.result = "Err:revert"]
    /\ UNCHANGED rollupRest

\* main.rs:222  the notification has no committed chain
RollupNoCommit ==
    /\ rollup.pc = "commit"
    /\ rollup.notification.committed = None
    /\ rollup' = [rollup EXCEPT !.pc = "recv"]
    /\ UNCHANGED rollupRest

\* main.rs:222-223  self.commit(&committed_chain).await?
RollupCommit ==
    /\ rollup.pc = "commit"
    /\ rollup.notification.committed # None
    /\ \E outcomes \in EventOutcomeSeqs :
        LET r == commit(outcomes)
            logged == [rollup EXCEPT !.log = Append(@, Called("commit", r, Range(Handled(outcomes))))]
        IN  rollup' = CASE r = "Ok" -> [logged EXCEPT !.pc = "send"]
                        [] r = "Err" -> [logged EXCEPT !.pc = "done",
                                                       !.result = "Err:commit"]
                        [] OTHER -> [logged EXCEPT !.pc = "done", !.result = "panic"]
    /\ UNCHANGED rollupRest

\* main.rs:224  self.ctx.events.send(ExExEvent::FinishedHeight(tip.number))?
RollupSend ==
    /\ rollup.pc = "send"
    /\ \/ rollup' = [rollup EXCEPT
                       !.pc = "recv",
                       !.log = Append(@, Called("send", "Ok", {})),
                       !.events = Append(@, [FinishedHeight |->
                                                rollup.notification.committed[1],
                                             n |-> Len(rollup.received)])]
       \/ \* the receiver of the events is gone
          rollup' = [rollup EXCEPT
                       !.pc = "done",
                       !.result = "Err:send",
                       !.log = Append(@, Called("send", "Err", {}))]
    /\ UNCHANGED rollupRest

NextRollup ==
    \/ RollupRecv
    \/ RollupClosed
    \/ RollupRevert
    \/ RollupNoCommit
    \/ RollupCommit
    \/ RollupSend

SpecRollup == InitRollup /\ [][NextRollup]_vars

(***************************************************************************)
(* Properties of one build attempt (Spec).                                 *)
(***************************************************************************)
Last == trail[Len(trail)]

ExecutedIds == [i \in 1..Len(executed_txs) |-> executed_txs[i].id]

GasOfExecuted == SumSeq([i \in 1..Len(executed_txs) |-> executed_txs[i].gas_used])

BlobGasOfExecuted ==
    SumSeq([i \in 1..Len(executed_txs) |-> pool[executed_txs[i].id].blob_gas])

PreBlockSteps == <<"beacon_root", "blockhashes">>

\* C1: at every point of an attempt the gas used by the included
\* transactions, which is cumulative_gas_used, is at most the block gas limit,
\* and so is the gas_used of a sealed header against its gas_limit.
C1_GasWithinLimit ==
    /\ cumulative_gas_used = GasOfExecuted
    /\ cumulative_gas_used <= block_gas_limit
    /\ block.sealed => block.gas_used <= block.gas_limit

\* a sealed block of two transactions that fills the gas limit exactly, after
\* a candidate was refused for its gas
C1_Witness ==
    /\ block.sealed
    /\ Len(block.body) = 2
    /\ block.gas_used = block.gas_limit
    /\ \E i \in 1..Len(trail) : trail[i].branch = "gas_exceeded"

\* C2: at every point of an attempt the blob gas used by the included blob
\* transactions, which is sum_blob_gas_used, is at most MAX_DATA_GAS_PER_BLOCK.
C2_BlobGasWithinCeiling ==
    /\ sum_blob_gas_used = BlobGasOfExecuted
    /\ sum_blob_gas_used <= MAX_DATA_GAS_PER_BLOCK
    /\ block.sealed /\ chain_spec.cancun =>
          unwrap_or_default(block.blob_gas_used) <= MAX_DATA_GAS_PER_BLOCK

\* a blob transaction was refused for its blob gas after another was included
C2_Witness ==
    /\ sum_blob_gas_used > 0
    /\ trail # <<>>
    /\ Last.branch = "blob_exceeded"
    /\ ~Last.blob_fits

\* C3 as claimed: a candidate produced after cancellation was requested ends
\* the attempt as Cancelled, before any gas check or mark_invalid.
C3_CancelCheckedFirst ==
    \A i \in 1..Len(trail) : trail[i].cancel => trail[i].branch = "cancelled"

\* C3, amended: the gas check comes first and the cancellation check second.
\* A candidate produced after cancellation was requested is passed to
\* mark_invalid and skipped when it does not fit the gas budget; when it fits,
\* the attempt ends there as Cancelled, before any blob check or execution of
\* that candidate, with nothing of the attempt's work changed and no block.
C3_CancelCheckedAfterGas ==
    /\ \A i \in 1..Len(trail) :
          trail[i].cancel =>
             /\ trail[i].branch = (IF trail[i].fits THEN "cancelled" ELSE "gas_exceeded")
             /\ ~trail[i].fits => trail[i].tx \in best_txs.invalid
             /\ trail[i].fits => i = Len(trail) /\ outcome = "Cancelled" /\ pc = "done"
    /\ outcome = "Cancelled" =>
          /\ trail # <<>> /\ Last.branch = "cancelled" /\ Last.cancel
          /\ Last.tx \notin Range(ExecutedIds) \cup best_txs.invalid
          /\ ~block.sealed /\ steps = PreBlockSteps

\* Cancelled after one transaction was executed and a later candidate, which
\* did not fit, was skipped with the cancellation already requested
C3_Witness ==
    /\ outcome = "Cancelled"
    /\ Len(executed_txs) = 1
    /\ \E i \in 1..Len(trail) : trail[i].cancel /\ trail[i].branch = "gas_exceeded"

\* C4 as claimed: an attempt in which cancellation was requested before the
\* loop ended is never Aborted or Better.
C4_CancelAlwaysWins == cancel => outcome \notin {"Aborted", "Better"}

\* C4, amended: cancellation wins over the fee comparison whenever the loop
\* reaches its cancellation check: a step of the loop on a candidate that fits
\* the gas budget, taken after cancellation was requested, ends the attempt as
\* Cancelled whatever the fees and the candidates left.  (An attempt is Aborted
\* or Better after a request only when no candidate produced after it fits.)
C4_CancelWinsWhenChecked ==
    [][ ( /\ pc = "loop" /\ cancel /\ Candidate # 0
          /\ cumulative_gas_used + pool[Candidate].gas_limit <= block_gas_limit )
        => (outcome' = "Cancelled" /\ pc' = "done") ]_vars

\* Cancelled with fees that beat the best payload and candidates left
C4_Witness ==
    /\ outcome = "Cancelled"
    /\ best_payload.some /\ total_fees > best_payload.fees
    /\ Candidate # 0

\* C5: once the loop has completed, the attempt is Aborted exactly when there
\* is a best payload whose fees the total fees do not exceed (equal fees
\* abort), and then nothing of the assembly was done: no step after the
\* pre-block hooks, no sealed block.  Otherwise the block is assembled, and a
\* Better outcome carries the sealed block.
C5_AbortedIffNotBetter ==
    /\ (pc = "assemble" \/ outcome \in {"Aborted", "Better", "Err:assembly"}) =>
          (outcome = "Aborted" <=> (best_payload.some /\ total_fees <= best_payload.fees))
    /\ outcome = "Aborted" => steps = PreBlockSteps /\ block = NoBlock
    /\ outcome = "Better" => block.sealed /\ block.fees = total_fees
    /\ outcome \in {"Aborted", "Better"} => (trail # <<>> => Last.branch # "cancelled")

\* Aborted with fees equal to those of the best payload
C5_Witness ==
    /\ outcome = "Aborted"
    /\ best_payload.some
    /\ total_fees = best_payload.fees
    /\ executed_txs # <<>>

\* The scenario of C6: three transactions of gas limit 21000 and no blob, two
\* of one sender (its nonce 0 and nonce 1) and one of the other, in any order
\* the selector may rank them; block gas limit 35000; no cancellation; every
\* transaction the loop executes succeeds and uses 21000 gas; the loop ends.
Scenario ==
    /\ Len(pool) = 3
    /\ \E i \in 1..3 : pool[i].sender # pool[1].sender
    /\ \A i \in 1..3 : pool[i].gas_limit = 21000 /\ pool[i].blob_gas = 0
    /\ block_gas_limit = 35000
    /\ outcome \in {"Aborted", "Better"}
    /\ \A i \in 1..Len(trail) : trail[i].branch \in {"executed", "gas_exceeded"}
    /\ \A i \in 1..Len(executed_txs) : executed_txs[i].gas_used = 21000

\* the scenario's transactions: the nonce 0 and the nonce 1 of the sender of
\* two (A in the claim), and the transaction of the other sender (B)
ScenarioA0 ==
    CHOOSE i \in 1..3 : NonceOf(pool, i) = 0
                        /\ \E j \in 1..3 : j # i /\ pool[j].sender = pool[i].sender
ScenarioA1 == CHOOSE i \in 1..3 : NonceOf(pool, i) = 1
ScenarioB == CHOOSE i \in 1..3 : \A j \in 1..3 : j # i => pool[j].sender # pool[i].sender

\* C6 as claimed: the attempt includes A's nonce-0 and B's transaction and
\* excludes A's nonce-1 transaction.
C6_IncludesA0AndB ==
    Scenario => Range(ExecutedIds) = {ScenarioA0, ScenarioB}

\* C6, amended: 21000 + 21000 > 35000, so the attempt includes only the
\* transaction the selector produces first, A's nonce 0 or B's; the other of
\* these two and A's nonce 1 are excluded, each refused by the gas check and
\* passed to mark_invalid or removed with the transaction it depends on, and
\* the attempt ends without a fatal error with 21000 gas used.
C6_IncludesFirstOnly ==
    Scenario =>
        /\ ExecutedIds = <<1>>
        /\ ExecutedIds \in {<<ScenarioA0>>, <<ScenarioB>>}
        /\ ScenarioA1 \notin Range(ExecutedIds)
        /\ best_txs.invalid \cup {i \in 1..3 : Removed(pool, best_txs, i)} = {2, 3}
        /\ cumulative_gas_used = 21000

\* the scenario ran to a sealed block in the order A's nonce 0, A's nonce 1, B
C6_Witness ==
    /\ Scenario
    /\ outcome = "Better"
    /\ <<ScenarioA0, ScenarioA1, ScenarioB>> = <<1, 2, 3>>

\* the transactions of the block
BodyIds == {block.body[i].id : i \in 1..Len(block.body)}

\* the branches of the loop that pass the candidate to mark_invalid
MarkingBranches == {"gas_exceeded", "blob_exceeded", "invalid"}

\* the transaction of the i-th iteration of the loop
TxOf(i) == pool[trail[i].tx]

\* the i-th iteration did not end the attempt: another iteration followed it,
\* or the loop is still running, or the selector ran dry and the attempt went
\* on to the fee comparison
WentOn(i) ==
    \/ i < Len(trail)
    \/ pc \in {"loop", "assemble"}
    \/ outcome \in {"Aborted", "Better", "Err:assembly"}

\* k is a dependent of j: of the same sender, with a strictly higher nonce
DependsOn(k, j) ==
    pool[k].sender = pool[j].sender /\ NonceOf(pool, k) > NonceOf(pool, j)

\* C14: a candidate whose gas limit does not fit what is left of the block gas
\* limit is passed to mark_invalid, is neither executed nor included, and the
\* loop goes on with the next candidate: the iteration never ends the attempt,
\* with a fatal error or otherwise.
C14_GasExceededSkipped ==
    \A i \in 1..Len(trail) :
        /\ trail[i].branch = "gas_exceeded" <=> ~trail[i].fits
        /\ ~trail[i].fits =>
              /\ trail[i].cumulative_gas_used + TxOf(i).gas_limit > block_gas_limit
              /\ trail[i].tx \in best_txs.invalid
              /\ trail[i].tx \notin Range(ExecutedIds)
              /\ block.sealed => trail[i].tx \notin BodyIds
              /\ WentOn(i)

\* a candidate was refused for its gas and a later, smaller one was executed
C14_Witness ==
    \E i, j \in 1..Len(trail) :
        /\ i < j
        /\ trail[i].branch = "gas_exceeded"
        /\ trail[j].branch = "executed"
        /\ TxOf(j).gas_limit < TxOf(i).gas_limit

\* C15: a blob transaction that reaches the blob check and would push the
\* blob gas over MAX_DATA_GAS_PER_BLOCK is passed to mark_invalid, is neither
\* executed nor included, and the loop goes on; a transaction without blobs of
\* another sender that the selector had not produced yet stays eligible, and
\* once the loop has ended every such transaction was evaluated unless a
\* mark_invalid of its own sender removed it.
C15_BlobExceededSkipped ==
    \A i \in 1..Len(trail) :
        /\ trail[i].branch = "blob_exceeded" <=>
              ( /\ trail[i].fits /\ ~trail[i].cancel
                /\ IsBlob(TxOf(i))
                /\ trail[i].sum_blob_gas_used + TxOf(i).blob_gas > MAX_DATA_GAS_PER_BLOCK )
        /\ trail[i].branch = "blob_exceeded" =>
              /\ trail[i].tx \in best_txs.invalid
              /\ trail[i].tx \notin Range(ExecutedIds)
              /\ block.sealed => trail[i].tx \notin BodyIds
              /\ WentOn(i)
              /\ \A k \in 1..Len(pool) :
                    ( /\ ~IsBlob(pool[k])
                      /\ pool[k].sender # TxOf(i).sender
                      /\ ~Removed(pool, best_txs, k) ) =>
                       /\ k \notin best_txs.yielded => Eligible(pool, best_txs, k)
                       /\ (pc \in {"assemble", "done"} /\ WentOn(Len(trail))) =>
                             \E j \in 1..Len(trail) : trail[j].tx = k

\* a blob transaction was refused for its blob gas and a later transaction
\* without blobs, of the other sender, was executed
C15_Witness ==
    \E i, j \in 1..Len(trail) :
        /\ i < j
        /\ trail[i].branch = "blob_exceeded"
        /\ trail[j].branch = "executed"
        /\ ~IsBlob(TxOf(j))
        /\ TxOf(j).sender # TxOf(i).sender

\* C16: skip_blobs is signalled exactly when the blob gas has reached
\* MAX_DATA_GAS_PER_BLOCK, which happens only by a successful blob
\* transaction; never while the blob gas is below the ceiling; and every blob
\* transaction the loop evaluates is evaluated with the blob gas below the
\* ceiling, so that none is produced or evaluated after the signal.
C16_SkipBlobsAtCeiling ==
    /\ best_txs.skip_blobs <=> sum_blob_gas_used = MAX_DATA_GAS_PER_BLOCK
    /\ best_txs.skip_blobs =>
          /\ executed_txs # <<>>
          /\ \E i \in 1..Len(trail) :
                /\ trail[i].branch = "executed" /\ IsBlob(TxOf(i))
                /\ trail[i].sum_blob_gas_used + TxOf(i).blob_gas = MAX_DATA_GAS_PER_BLOCK
                /\ \A j \in (i + 1)..Len(trail) : ~IsBlob(TxOf(j))
          /\ pc = "loop" /\ Candidate # 0 => ~IsBlob(pool[Candidate])
    /\ \A i \in 1..Len(trail) :
          IsBlob(TxOf(i)) => trail[i].sum_blob_gas_used < MAX_DATA_GAS_PER_BLOCK

\* the ceiling was reached by two blob transactions and the loop ended without
\* the selector producing the third
C16_Witness ==
    /\ best_txs.skip_blobs
    /\ outcome = "Better"
    /\ Len(trail) = 2
    /\ \E k \in 1..Len(pool) : IsBlob(pool[k]) /\ k \notin best_txs.yielded
                               /\ ~Removed(pool, best_txs, k)

\* C17: after mark_invalid of a transaction, neither it nor a transaction of
\* the same sender with a higher nonce is produced again in the attempt, while
\* the transactions of the other senders are unaffected: a transaction is
\* withheld by mark_invalid only for a marked transaction of its own sender on
\* which it depends.  No sealed block holds a transaction of a sender one of
\* whose lower-nonce transactions was marked invalid.
C17_DependentsInvalidated ==
    /\ \A i, j \in 1..Len(trail) :
          (i < j /\ trail[i].branch \in MarkingBranches) =>
              /\ trail[j].tx # trail[i].tx
              /\ ~DependsOn(trail[j].tx, trail[i].tx)
    /\ \A i \in 1..Len(trail) :
          trail[i].branch \in MarkingBranches =>
              \A k \in 1..Len(pool) :
                  (k = trail[i].tx \/ DependsOn(k, trail[i].tx)) =>
                      /\ ~Eligible(pool, best_txs, k)
                      /\ k \notin Range(ExecutedIds)
                      /\ block.sealed => k \notin BodyIds
    /\ LET marked == {trail[i].tx : i \in {n \in 1..Len(trail) :
                                               trail[n].branch \in MarkingBranches}}
       IN  \A k \in 1..Len(pool) :
               (k \notin best_txs.yielded /\ ~(best_txs.skip_blobs /\ IsBlob(pool[k]))) =>
                   ( Eligible(pool, best_txs, k) <=>
                     ~\E j \in marked : DependsOn(k, j) )

\* the first transaction of one sender was marked invalid, its two dependents
\* were never produced, and the loop ended
C17_Witness ==
    /\ outcome \in {"Aborted", "Better"}
    /\ Len(trail) = 1
    /\ trail[1].branch \in MarkingBranches
    /\ Cardinality({k \in 1..Len(pool) : DependsOn(k, trail[1].tx)}) = 2

\* C18: a nonce-too-low failure skips that transaction only: mark_invalid is
\* not called for it, it is not included, the loop goes on, and the
\* transactions of the same sender with a higher nonce stay eligible unless a
\* marked transaction withholds them.
C18_NonceTooLowSkipsOne ==
    \A i \in 1..Len(trail) :
        trail[i].branch = "nonce_too_low" =>
            /\ trail[i].tx \notin best_txs.invalid
            /\ trail[i].tx \notin Range(ExecutedIds)
            /\ WentOn(i)
            /\ \A k \in 1..Len(pool) :
                  ( /\ DependsOn(k, trail[i].tx)
                    /\ k \notin best_txs.yielded
                    /\ ~(best_txs.skip_blobs /\ IsBlob(pool[k]))
                    /\ ~\E j \in 1..Len(trail) :
                          /\ trail[j].branch \in MarkingBranches
                          /\ (k = trail[j].tx \/ DependsOn(k, trail[j].tx)) ) =>
                     Eligible(pool, best_txs, k)

\* a transaction failed with nonce too low and the next one of its sender was
\* executed
C18_Witness ==
    \E i, j \in 1..Len(trail) :
        /\ i < j
        /\ trail[i].branch = "nonce_too_low"
        /\ trail[j].branch = "executed"
        /\ DependsOn(trail[j].tx, trail[i].tx)

\* C19: a validation failure other than nonce too low passes the transaction
\* to mark_invalid: it is skipped, neither it nor a transaction of its sender
\* with a higher nonce is produced or included afterwards, and the loop goes
\* on without ending the attempt.
C19_InvalidMarksInvalid ==
    \A i \in 1..Len(trail) :
        trail[i].branch = "invalid" =>
            /\ trail[i].fits
            /\ trail[i].tx \in best_txs.invalid
            /\ trail[i].tx \notin Range(ExecutedIds)
            /\ WentOn(i)
            /\ \A k \in 1..Len(pool) :
                  DependsOn(k, trail[i].tx) =>
                     /\ ~Eligible(pool, best_txs, k)
                     /\ k \notin Range(ExecutedIds)
                     /\ \A j \in (i + 1)..Len(trail) : trail[j].tx # k

\* a transaction failed validation, its dependent was never produced, and a
\* transaction of the other sender was executed afterwards
C19_Witness ==
    \E i, j \in 1..Len(trail) :
        /\ i < j
        /\ trail[i].branch = "invalid"
        /\ trail[j].branch = "executed"
        /\ \E k \in 1..Len(pool) : DependsOn(k, trail[i].tx)
        /\ outcome = "Better"

\* C20: an execution-engine failure that is no validation failure ends the
\* attempt at once with the fatal error EvmExecutionError: the failing
\* iteration is the last one, no outcome Better, Aborted or Cancelled is
\* produced, nothing is assembled and no block is sealed; and the attempt
\* ends with that error in no other way.
C20_EngineFailureIsFatal ==
    /\ \A i \in 1..Len(trail) :
          trail[i].branch = "fatal" =>
              /\ i = Len(trail)
              /\ pc = "done" /\ outcome = "Err:evm"
              /\ trail[i].tx \notin Range(ExecutedIds)
              /\ steps = PreBlockSteps
              /\ block = NoBlock
    /\ outcome = "Err:evm" => (trail # <<>> /\ Last.branch = "fatal")

\* the engine failed after one transaction was executed, with candidates left
C20_Witness ==
    /\ outcome = "Err:evm"
    /\ Len(executed_txs) = 1
    /\ Candidate # 0


\* the fees of the executed transactions:
\* effective_tip_per_gas(base_fee) * gas_used of each
FeesOfExecuted ==
    SumSeq([i \in 1..Len(executed_txs) |->
                pool[executed_txs[i].id].tip * executed_txs[i].gas_used])

\* C21: at every point of the attempt, and so at the end of the loop, the
\* total fees are the sum over the executed transactions of
\* effective_tip_per_gas(base_fee) * gas_used; the transactions that were
\* skipped or marked invalid are not executed and add nothing; and no step
\* lowers the total.
C21_FeesAreSumOfExecuted ==
    /\ [](total_fees = FeesOfExecuted)
    /\ [](\A i \in 1..Len(trail) :
             trail[i].branch # "executed" => trail[i].tx \notin Range(ExecutedIds))
    /\ [][total_fees' >= total_fees]_vars

\* the loop ended with two executed transactions, one of which used less gas
\* than its limit, and one transaction that was not executed
C21_Witness ==
    /\ outcome \in {"Aborted", "Better"}
    /\ Len(executed_txs) = 2
    /\ \E i \in 1..2 : executed_txs[i].gas_used < pool[executed_txs[i].id].gas_limit
    /\ \E i \in 1..Len(trail) : trail[i].branch # "executed"
    /\ total_fees = FeesOfExecuted
    /\ total_fees > 0

\* how many times a step was performed
Count(s, x) == Cardinality({i \in 1..Len(s) : s[i] = x})

\* C22: the block is sealed at most once in an attempt, and exactly on the
\* Better path: an attempt that is still running, or that ended as Cancelled,
\* Aborted or with an error, sealed nothing and carries no payload; a Better
\* outcome carries the one sealed block, whose body is the list of the executed
\* transactions, in order.
C22_SealedOnceOnBetter ==
    /\ Count(steps, "seal") <= 1
    /\ Count(steps, "seal") = 1 <=> outcome = "Better"
    /\ block.sealed <=> outcome = "Better"
    /\ outcome # "Better" => block = NoBlock
    /\ outcome = "Better" =>
          /\ block.body = executed_txs
          /\ steps[Len(steps)] = "seal"

\* a Better outcome whose sealed block holds two transactions
C22_Witness ==
    /\ outcome = "Better"
    /\ block.sealed
    /\ Len(block.body) = 2
    /\ block.body = executed_txs
    /\ Count(steps, "seal") = 1

\* the results an attempt can end with
TerminalOutcomes ==
    {"Cancelled", "Aborted", "Better", "Err:pre_block", "Err:evm", "Err:assembly"}

\* C23: every build attempt over a finite selector terminates.  It reaches a
\* terminal result (Cancelled, Aborted, Better or an error); it has no result
\* before that and exactly one from then on; the loop is left only when the
\* selector is exhausted, on cancellation or on a fatal execution error; and
\* no step is taken after the terminal result.
C23_Terminates ==
    /\ <>(pc = "done")
    /\ [](pc = "done" <=> outcome \in TerminalOutcomes)
    /\ [](pc # "done" => outcome = "none")
    /\ [][ /\ pc = "done" => UNCHANGED vars
           /\ (pc = "loop" /\ pc' # "loop") =>
                 \/ Candidate = 0
                 \/ outcome' \in {"Cancelled", "Err:evm"} ]_vars

\* the selector produced all its transactions, was exhausted, and the attempt
\* ended
C23_Witness ==
    /\ pc = "done"
    /\ outcome \in {"Aborted", "Better"}
    /\ Len(trail) = Len(pool)
    /\ Candidate = 0

\* C24: the two pre-block hooks run once each, the beacon-root contract call
\* first and the block-hash-history update second, and both have run before
\* the selector's first transaction is looked at; a failure of either ends the
\* attempt with an error before the loop starts, with nothing executed.
C24_PreBlockHooksOnceInOrder ==
    /\ Count(steps, "beacon_root") <= 1
    /\ Count(steps, "blockhashes") <= 1
    /\ pc = "pre_beacon_root" => steps = <<>>
    /\ pc = "pre_blockhashes" => steps = <<"beacon_root">>
    /\ (pc \in {"loop", "assemble"} \/ trail # <<>> \/ executed_txs # <<>>
          \/ outcome \in TerminalOutcomes \ {"Err:pre_block"}) =>
          /\ Len(steps) >= 2
          /\ SubSeq(steps, 1, 2) = PreBlockSteps
    /\ outcome = "Err:pre_block" =>
          /\ pc = "done"
          /\ steps \in {<<>>, <<"beacon_root">>}
          /\ trail = <<>> /\ executed_txs = <<>> /\ best_txs = NewBestTransactions
          /\ ~block.sealed

\* both hooks ran, in order, and then the loop executed two transactions and
\* the block was sealed
C24_Witness ==
    /\ outcome = "Better"
    /\ SubSeq(steps, 1, 2) = PreBlockSteps
    /\ Count(steps, "beacon_root") = 1 /\ Count(steps, "blockhashes") = 1
    /\ Len(executed_txs) = 2

\* the position of the first occurrence of a step (0: not performed)
Pos(s, x) ==
    IF \E i \in 1..Len(s) : s[i] = x
    THEN CHOOSE i \in 1..Len(s) : s[i] = x /\ \A j \in 1..(i - 1) : s[j] # x
    ELSE 0

\* the withdrawals are applied at most once, after the loop has ended with the
\* selector exhausted, after the request hook when the request rules are
\* active, and immediately before the merge of the transitions, which comes
\* before the state root
WithdrawalsInOrder ==
    /\ Count(steps, "withdrawals") <= 1
    /\ Pos(steps, "withdrawals") > 0 =>
          /\ pc = "done" /\ Candidate = 0
          /\ Pos(steps, "withdrawals") > 2
          /\ chain_spec.prague =>
                /\ Pos(steps, "requests") > 0
                /\ Pos(steps, "requests") < Pos(steps, "withdrawals")
          /\ Pos(steps, "merge") > 0 =>
                Pos(steps, "merge") = Pos(steps, "withdrawals") + 1
          /\ Pos(steps, "state_root") > 0 =>
                Pos(steps, "state_root") = Pos(steps, "merge") + 1
    /\ Pos(steps, "merge") > 0 => Pos(steps, "withdrawals") > 0
    /\ Pos(steps, "state_root") > 0 => Pos(steps, "merge") > 0
    /\ outcome = "Better" =>
          /\ Count(steps, "withdrawals") = 1
          /\ Count(steps, "merge") = 1
          /\ Count(steps, "state_root") = 1

\* C25 as claimed: the withdrawals are applied once, in that order, on a
\* Better attempt, and on no attempt that ended as Cancelled, Aborted or with
\* an error.
C25_WithdrawalsOnlyWhenFinalized ==
    /\ WithdrawalsInOrder
    /\ outcome \in TerminalOutcomes \ {"Better"} => Pos(steps, "withdrawals") = 0

\* C25, amended: the withdrawals are applied once, in that order, on a Better
\* attempt, and on no attempt that ended as Cancelled, as Aborted, or with an
\* error of the pre-block hooks, of the execution of a transaction or of the
\* request hook.  An attempt that fails after commit_withdrawals (the state
\* root, the sidecars) has applied them, once, to its own state.
C25_WithdrawalsOnceAfterLoop ==
    /\ WithdrawalsInOrder
    /\ outcome \in {"Cancelled", "Aborted", "Err:pre_block", "Err:evm"} =>
          Pos(steps, "withdrawals") = 0
    /\ (outcome = "Err:assembly" /\ Pos(steps, "withdrawals") > 0) =>
          /\ ~block.sealed
          /\ Pos(steps, "seal") = 0

\* the request hook ran, the withdrawals were applied and merged, the state
\* root was computed, and the block with two transactions was sealed
C25_Witness ==
    /\ outcome = "Better"
    /\ chain_spec.prague
    /\ Len(executed_txs) = 2
    /\ Pos(steps, "requests") = 3
    /\ Pos(steps, "withdrawals") = 4
    /\ Pos(steps, "merge") = 5
    /\ Pos(steps, "state_root") = 6

\* C26: the post-block request hook runs exactly when the request rules
\* (prague) are active at the attempt's timestamp, and then once, after the
\* loop has ended and before any later assembly step; the sealed block carries
\* requests and the header a requests root, computed over those requests, when
\* the rules are active, and neither of them otherwise.
C26_RequestsIffActive ==
    /\ Count(steps, "requests") <= 1
    /\ Pos(steps, "requests") > 0 =>
          /\ chain_spec.prague
          /\ pc = "done" /\ Candidate = 0
          /\ Pos(steps, "requests") = Len(PreBlockSteps) + 1
    /\ (chain_spec.prague /\ Len(steps) > Len(PreBlockSteps)) =>
          Pos(steps, "requests") > 0
    /\ outcome = "Better" =>
          /\ chain_spec.prague <=> Pos(steps, "requests") > 0
          /\ chain_spec.prague <=> block.requests # None
          /\ chain_spec.prague <=> block.requests_root # None
          /\ chain_spec.prague =>
                block.requests_root =
                    Some(calculate_requests_root(unwrap_or_default(block.requests)))
    /\ outcome # "Better" => block.requests = None /\ block.requests_root = None

\* a block of one transaction sealed with the request rules active: the hook
\* ran and the requests and their root are present
C26_Witness ==
    /\ outcome = "Better"
    /\ chain_spec.prague
    /\ Len(executed_txs) = 1
    /\ Pos(steps, "requests") = 3
    /\ block.requests # None
    /\ block.requests_root # None

\* the excess blob gas the header must carry when blobs are enabled: derived
\* from the parent's two blob fields if blobs were enabled at the parent's
\* timestamp, and from (0, 0) otherwise
ExpectedExcess ==
    LET parent == ParentBlock(chain_spec)
    IN  IF chain_spec.parent_cancun
        THEN calculate_excess_blob_gas(unwrap_or_default(parent.excess_blob_gas),
                                       unwrap_or_default(parent.blob_gas_used))
        ELSE calculate_excess_blob_gas(0, 0)

\* C27: the header of a sealed block carries blob_gas_used and excess_blob_gas
\* exactly when blobs (cancun) are enabled at the attempt's timestamp, and
\* neither of them otherwise; blob_gas_used is the blob gas the loop
\* accumulated, the sum over the executed blob transactions; excess_blob_gas
\* is derived from the parent's excess_blob_gas and blob_gas_used if blobs were
\* enabled at the parent's timestamp, and from (0, 0) otherwise.  The header
\* of an empty payload follows the same rule, with a blob_gas_used of zero.
C27_BlobHeaderFields ==
    /\ outcome = "Better" =>
          /\ chain_spec.cancun <=> block.blob_gas_used # None
          /\ chain_spec.cancun <=> block.excess_blob_gas # None
          /\ chain_spec.cancun =>
                /\ block.blob_gas_used = Some(sum_blob_gas_used)
                /\ block.blob_gas_used = Some(BlobGasOfExecuted)
                /\ block.excess_blob_gas = Some(ExpectedExcess)
    /\ outcome # "Better" =>
          block.blob_gas_used = None /\ block.excess_blob_gas = None
    /\ LET header == EmptyPayloadHeader(chain_spec, ParentBlock(chain_spec))
       IN  /\ chain_spec.cancun <=> header.blob_gas_used # None
           /\ chain_spec.cancun <=> header.excess_blob_gas # None
           /\ chain_spec.cancun =>
                 /\ header.blob_gas_used = Some(0)
                 /\ header.excess_blob_gas = Some(ExpectedExcess)

\* a sealed block with blobs enabled at its timestamp and at its parent's,
\* holding a blob transaction: its excess blob gas comes from the parent's
\* fields, which are not (0, 0)
C27_Witness ==
    /\ outcome = "Better"
    /\ chain_spec.cancun /\ chain_spec.parent_cancun
    /\ sum_blob_gas_used > 0
    /\ block.blob_gas_used = Some(sum_blob_gas_used)
    /\ block.excess_blob_gas = Some(ExpectedExcess)
    /\ ExpectedExcess # calculate_excess_blob_gas(0, 0)

\* the EIP-4844 transactions of the body of the sealed block
BodyBlobIds == {i \in BodyIds : IsBlob(pool[i])}

GasUsedOf(i) ==
    IF \E k \in 1..Len(executed_txs) : executed_txs[k].id = i
    THEN executed_txs[CHOOSE k \in 1..Len(executed_txs) : executed_txs[k].id = i].gas_used
    ELSE 0

Answers ==
    [n \in 1..Len(trail) |->
        [cancel |-> trail[n].cancel,
         evm |-> trail[n].branch,
         gas_used |-> GasUsedOf(trail[n].tx)]]

\* builder.rs:193-205  the locals before the loop
LoopStart ==
    [best_txs |-> NewBestTransactions, cumulative_gas_used |-> 0,
     sum_blob_gas_used |-> 0, executed_txs |-> <<>>, receipts |-> <<>>,
     total_fees |-> 0, outcome |-> "none", taken |-> <<>>]

\* builder.rs:230-335  one iteration as a function of the locals, the
\* arguments and the answers given to it
Iterate(st, a) ==
    LET i == SelNext(pool, st.best_txs)
        tx == pool[i]
        b == LoopBranch(st.cumulative_gas_used, st.sum_blob_gas_used, tx,
                        block_gas_limit, a.cancel)
        yielded == Yield(st.best_txs, i)
        went == [st EXCEPT !.taken = Append(@, i)]
    IN  IF i = 0 \/ st.outcome # "none" THEN [st EXCEPT !.outcome = "no_iteration"]
        ELSE IF b \in {"gas_exceeded", "blob_exceeded"}
        THEN [went EXCEPT !.best_txs = mark_invalid(yielded, i)]
        ELSE IF b = "cancelled"
        THEN [went EXCEPT !.best_txs = yielded, !.outcome = "Cancelled"]
        ELSE IF a.evm = "nonce_too_low"
        THEN [went EXCEPT !.best_txs = yielded]
        ELSE IF a.evm = "invalid"
        THEN [went EXCEPT !.best_txs = mark_invalid(yielded, i)]
        ELSE IF a.evm = "fatal"
        THEN [went EXCEPT !.best_txs = yielded, !.outcome = "Err:evm"]
        ELSE IF a.evm = "executed"
        THEN [went EXCEPT
                !.best_txs = SelectorAfter(yielded, st.sum_blob_gas_used, tx),
                !.sum_blob_gas_used = BlobGasAfter(@, tx),
                !.cumulative_gas_used = @ + a.gas_used,
                !.receipts = Append(@, [tx |-> i,
                                        cumulative_gas_used |->
                                            st.cumulative_gas_used + a.gas_used]),
                !.total_fees = @ + MinerFee(tx, a.gas_used),
                !.executed_txs = Append(@, [id |-> i, gas_used |-> a.gas_used])]
        ELSE [st EXCEPT !.outcome = "no_answer"]

RECURSIVE Run(_, _)
Run(st, answers) ==
    IF answers = <<>> THEN st ELSE Run(Iterate(st, Head(answers)), Tail(answers))

SkipBranches == {"gas_exceeded", "blob_exceeded", "nonce_too_low", "invalid"}

\* What the attempt's State has committed: the hooks that ran on it and the
\* transactions whose changes db.commit() took (builder.rs:298, on the
\* successful path only).
CommittedState == <<steps, ExecutedIds>>

\* C32: an iteration that skips its candidate (gas budget, blob budget, nonce
\* too low, other validation failure) leaves the committed state, the
\* cumulative gas, the cumulative blob gas, the receipts, the total fees and
\* the executed list as they were, and the loop goes on.
C32_SkipLeavesAccumulatedState ==
    [][(Len(trail') = Len(trail) + 1 /\ trail'[Len(trail')].branch \in SkipBranches) =>
          /\ CommittedState' = CommittedState
          /\ cumulative_gas_used' = cumulative_gas_used
          /\ sum_blob_gas_used' = sum_blob_gas_used
          /\ receipts' = receipts
          /\ total_fees' = total_fees
          /\ executed_txs' = executed_txs
          /\ pc' = "loop" /\ outcome' = "none"]_vars

\* every kind of skip happened after a transaction was executed, and the
\* accumulated values are those of that one transaction
C32_Witness ==
    /\ Len(trail) = 3
    /\ trail[1].branch = "executed"
    /\ {trail[2].branch, trail[3].branch} \in
          {{"gas_exceeded", "nonce_too_low"}, {"blob_exceeded", "invalid"}}
    /\ Len(executed_txs) = 1 /\ Len(receipts) = 1
    /\ cumulative_gas_used = executed_txs[1].gas_used
    /\ total_fees = MinerFee(pool[executed_txs[1].id], executed_txs[1].gas_used)

\* The transactions the loop executed, in the order the selector produced them.
ExecutedInProductionOrder ==
    LET ran == SelectSeq(trail, LAMBDA e : e.branch = "executed")
    IN  [n \in 1..Len(ran) |-> ran[n].tx]

\* The gas used by the first n executed transactions.
GasOfFirst(n) == SumSeq([k \in 1..n |-> executed_txs[k].gas_used])

\* C33: at every loop boundary the receipts and the executed transactions
\* have the same length and are aligned, in the order the selector produced
\* them; the i-th receipt's cumulative_gas_used is the gas used by the
\* executed transactions 1..i, so it never decreases along the list; the
\* sealed header's gas_used is the last receipt's cumulative_gas_used, and 0
\* for an empty block.
C33_ReceiptsAlignedWithExecuted ==
    /\ Len(receipts) = Len(executed_txs)
    /\ ExecutedIds = ExecutedInProductionOrder
    /\ \A i \in 1..Len(receipts) :
          /\ receipts[i].tx = executed_txs[i].id
          /\ receipts[i].cumulative_gas_used = GasOfFirst(i)
          /\ i > 1 => receipts[i].cumulative_gas_used >=
                          receipts[i - 1].cumulative_gas_used
    /\ block.sealed =>
          /\ block.body = executed_txs
          /\ block.gas_used = IF receipts = <<>> THEN 0
                              ELSE receipts[Len(receipts)].cumulative_gas_used

\* a block sealed over two transactions, the first of which used less gas
\* than its limit, with a skipped candidate between them
C33_Witness ==
    /\ block.sealed
    /\ Len(receipts) = 2
    /\ Len(trail) = 3 /\ trail[2].branch \in SkipBranches
    /\ executed_txs[1].gas_used < pool[executed_txs[1].id].gas_limit
    /\ receipts[1].cumulative_gas_used = executed_txs[1].gas_used
    /\ block.gas_used = executed_txs[1].gas_used + executed_txs[2].gas_used
    /\ block.gas_used = receipts[2].cumulative_gas_used

\* the steps applied to the State before the state root is computed
StateRootInputs(applied) ==
    SelectSeq(applied, LAMBDA x : x \notin {"state_root", "sidecars", "seal"})

\* C38 (refuted by the code): build_empty_payload and a build attempt over an
\* empty pool with no previous best payload, both successful, have run the
\* same hooks and withdrawals before the state root and sealed a block with
\* the same header fields, an empty body and zero fees.
C38_EmptyPayloadIsEmptyPoolBuild ==
    (outcome = "Better" /\ attempt.outcome = "Ok") =>
        /\ StateRootInputs(steps) = StateRootInputs(attempt.steps)
        /\ block.requests_root = attempt.block.requests_root
        /\ block.requests = attempt.block.requests
        /\ block.blob_gas_used = attempt.block.blob_gas_used
        /\ block.excess_blob_gas = attempt.block.excess_blob_gas
        /\ block.gas_used = 0 /\ attempt.block.gas_used = 0
        /\ block.gas_limit = attempt.block.gas_limit
        /\ block.body = <<>> /\ attempt.block.body = <<>>
        /\ block.fees = 0 /\ attempt.block.fees = 0

(***************************************************************************)
(* Properties of the cache (SpecCache).                                    *)
(***************************************************************************)
Reads == {"basic", "storage", "code_by_hash", "block_hash"}

\* the (address, slot) pairs the cache holds
CachedSlots(c) ==
    {<<a, sl>> \in Addresses \X Slots : HasSlot(c, a, sl)}

\* whether the cache holds the key of the last read, and with which value
KeyCached ==
    CASE ret.op = "basic" -> HasAccount(cached_reads, ret.key[1])
      [] ret.op = "storage" -> HasSlot(cached_reads, ret.key[1], ret.key[2])
      [] ret.op = "code_by_hash" -> ret.key[1] \in DOMAIN cached_reads.contracts
      [] ret.op = "block_hash" -> ret.key[1] \in DOMAIN cached_reads.block_hashes
      [] OTHER -> FALSE

KeyValue ==
    CASE ret.op = "basic" -> cached_reads.accounts[ret.key[1]].info
      [] ret.op = "storage" -> cached_reads.accounts[ret.key[1]].storage[ret.key[2]]
      [] ret.op = "code_by_hash" -> cached_reads.contracts[ret.key[1]]
      [] ret.op = "block_hash" -> cached_reads.block_hashes[ret.key[1]]

\* C7 as claimed: a successful read of a key that was read successfully or
\* seeded before returns the value known of the key and calls no provider.
C7_KnownKeyNeverQueriedAgain ==
    (ret.op \in Reads /\ ret.was_known /\ ret.ok) =>
        (ret.value = ret.known_value /\ ret.db_calls = <<>>)

\* C7, amended: the claim holds for accounts, bytecodes and block hashes: once
\* read successfully or seeded, the key stays in the cache with that value (the
\* latest seed, for an account), cached absence included, and every later read
\* of it returns that value without a provider call.  For a storage slot it
\* holds only while the cache holds the slot: a read that finds the slot in the
\* cache returns the value known of it without a provider call, but a slot
\* read on an account the provider reports absent is not stored, and
\* insert_account drops the slots it does not seed, so a later read of such a
\* slot asks the provider again.
C7_CachedKeyNeverQueriedAgain ==
    /\ \A a \in DOMAIN known.accounts :
          HasAccount(cached_reads, a) /\ cached_reads.accounts[a].info = known.accounts[a]
    /\ \A h \in DOMAIN known.contracts :
          h \in DOMAIN cached_reads.contracts /\ cached_reads.contracts[h] = known.contracts[h]
    /\ \A n \in DOMAIN known.block_hashes :
          n \in DOMAIN cached_reads.block_hashes
          /\ cached_reads.block_hashes[n] = known.block_hashes[n]
    /\ \A k \in CachedSlots(cached_reads) :
          k \in DOMAIN known.storage
          /\ cached_reads.accounts[k[1]].storage[k[2]] = known.storage[k]
    /\ (ret.op \in Reads /\ ret.op # "storage" /\ ret.was_known) => ret.hit
    /\ (ret.op \in Reads /\ ret.hit) =>
          /\ ret.ok /\ ret.db_calls = <<>>
          /\ ret.was_known => ret.value = ret.known_value
          /\ ret.op = "storage" => ret.was_known

\* the account of an address the provider reports absent is read again, from
\* the cache
C7_Witness ==
    /\ ret.op = "basic" /\ ret.hit
    /\ ret.value = NoAccount
    /\ ret.db_calls = <<>>
    /\ known.seeds = EmptyMap

\* C8 as claimed: a successful read that misses the cache makes exactly one
\* provider call and leaves its key in the cache with the value it returns.
C8_MissQueriesOnceAndStores ==
    (ret.op \in Reads /\ ~ret.hit /\ ret.ok) =>
        (Len(ret.db_calls) = 1 /\ KeyCached /\ KeyValue = ret.value)

\* C8, amended: a successful miss of basic, code_by_hash or block_hash makes
\* exactly one provider call, stores the result and returns it; so does a
\* storage miss when the cache holds the slot's account.  A storage read on an
\* account the cache does not hold asks the provider for the account first:
\* when the account exists it then asks for the slot (two calls) and stores
\* both; when it does not, it stores the absent account with no slots, makes no
\* second call, returns zero and does not store the slot.
C8_MissQueriesAndStores ==
    (ret.op \in Reads /\ ~ret.hit /\ ret.ok) =>
        CASE ret.op = "basic" ->
               /\ ret.db_calls = <<<<"basic", ret.key[1]>>>>
               /\ ret.value = basic_ref(provider, ret.key[1])
               /\ KeyCached /\ KeyValue = ret.value
          [] ret.op = "code_by_hash" ->
               /\ ret.db_calls = <<<<"code", ret.key[1]>>>>
               /\ ret.value = code_by_hash_ref(provider, ret.key[1])
               /\ KeyCached /\ KeyValue = ret.value
          [] ret.op = "block_hash" ->
               /\ ret.db_calls = <<<<"block_hash", ret.key[1]>>>>
               /\ ret.value = block_hash_ref(provider, ret.key[1])
               /\ KeyCached /\ KeyValue = ret.value
          [] ret.op = "storage" /\ ret.acc_hit ->
               /\ ret.db_calls = <<<<"storage", ret.key[1], ret.key[2]>>>>
               /\ ret.value = storage_ref(provider, ret.key[1], ret.key[2])
               /\ KeyCached /\ KeyValue = ret.value
          [] ret.op = "storage" /\ ~ret.acc_hit
                /\ basic_ref(provider, ret.key[1]) # NoAccount ->
               /\ ret.db_calls = <<<<"basic", ret.key[1]>>,
                                   <<"storage", ret.key[1], ret.key[2]>>>>
               /\ ret.value = storage_ref(provider, ret.key[1], ret.key[2])
               /\ KeyCached /\ KeyValue = ret.value
               /\ cached_reads.accounts[ret.key[1]].info = basic_ref(provider, ret.key[1])
          [] OTHER ->
               /\ ret.db_calls = <<<<"basic", ret.key[1]>>>>
               /\ ret.value = 0
               /\ cached_reads.accounts[ret.key[1]] = NewCachedAccount(NoAccount)

\* a storage read found neither the slot nor its account in the cache and
\* asked the provider for both
C8_Witness ==
    /\ ret.op = "storage" /\ ret.ok /\ ~ret.hit /\ ~ret.acc_hit
    /\ Len(ret.db_calls) = 2
    /\ HasSlot(cached_reads, ret.key[1], ret.key[2])

\* C9 as claimed: no operation removes an entry of the cache: its addresses,
\* (address, slot) pairs, code hashes and block numbers only grow.
C9_NoEntryRemoved ==
    [][ /\ DOMAIN cached_reads.accounts \subseteq DOMAIN cached_reads'.accounts
        /\ CachedSlots(cached_reads) \subseteq CachedSlots(cached_reads')
        /\ DOMAIN cached_reads.contracts \subseteq DOMAIN cached_reads'.contracts
        /\ DOMAIN cached_reads.block_hashes \subseteq DOMAIN cached_reads'.block_hashes
      ]_vars

\* C9, amended: no operation removes an address, a code hash or a block
\* number, and no read removes an (address, slot) pair; insert_account replaces
\* the storage of its address by the seeded one, which removes the slots of
\* that address it does not seed, and leaves the other addresses' slots.
C9_NoEntryRemovedButSeededSlots ==
    [][ /\ DOMAIN cached_reads.accounts \subseteq DOMAIN cached_reads'.accounts
        /\ DOMAIN cached_reads.contracts \subseteq DOMAIN cached_reads'.contracts
        /\ DOMAIN cached_reads.block_hashes \subseteq DOMAIN cached_reads'.block_hashes
        /\ ret'.op # "insert_account" =>
              CachedSlots(cached_reads) \subseteq CachedSlots(cached_reads')
        /\ ret'.op = "insert_account" =>
              CachedSlots(cached_reads') =
                  {k \in CachedSlots(cached_reads) : k[1] # ret'.key[1]}
                  \cup {<<ret'.key[1], sl>> : sl \in DOMAIN ret'.key[2]}
      ]_vars

\* insert_account has dropped a slot that a read had stored
C9_Witness ==
    /\ ret.op = "insert_account"
    /\ basic_ref(provider, ret.key[1]) # NoAccount
    /\ \E sl \in Slots :
          /\ <<ret.key[1], sl>> \in DOMAIN known.storage
          /\ known.storage[<<ret.key[1], sl>>] # 9
          /\ ~HasSlot(cached_reads, ret.key[1], sl)
    /\ DOMAIN cached_reads.contracts # {}

\* C10: insert_account calls no provider and leaves the account it seeds in
\* the cache; from then on the cache holds the info and every slot of the
\* address's latest seed, and a read of that info or of one of those slots
\* returns the seeded value without a provider call.
C10_SeedServedFromCache ==
    /\ ret.op = "insert_account" =>
          /\ ret.db_calls = <<>>
          /\ cached_reads.accounts[ret.key[1]] = [info |-> "q", storage |-> ret.key[2]]
    /\ \A a \in DOMAIN known.seeds :
          /\ HasAccount(cached_reads, a)
          /\ cached_reads.accounts[a].info = known.seeds[a].info
          /\ \A sl \in DOMAIN known.seeds[a].storage :
                /\ HasSlot(cached_reads, a, sl)
                /\ cached_reads.accounts[a].storage[sl] = known.seeds[a].storage[sl]
    /\ (ret.op = "basic" /\ ret.key[1] \in DOMAIN known.seeds) =>
          /\ ret.ok /\ ret.db_calls = <<>>
          /\ ret.value = known.seeds[ret.key[1]].info
    /\ ( /\ ret.op = "storage" /\ ret.key[1] \in DOMAIN known.seeds
         /\ ret.key[2] \in DOMAIN known.seeds[ret.key[1]].storage ) =>
          /\ ret.ok /\ ret.db_calls = <<>>
          /\ ret.value = known.seeds[ret.key[1]].storage[ret.key[2]]

\* a seeded slot of an account that the cache held before the seed is read
C10_Witness ==
    /\ ret.op = "storage" /\ ret.ok
    /\ ret.value = 9
    /\ ret.db_calls = <<>>
    /\ known.accounts[ret.key[1]] = "q"
    /\ nops = 3


\* every entry of the cache c is an entry of the cache c2, with the same value
KeepsValues(c, c2) ==
    /\ \A a \in DOMAIN c.accounts :
          /\ a \in DOMAIN c2.accounts
          /\ c2.accounts[a].info = c.accounts[a].info
          /\ \A sl \in DOMAIN c.accounts[a].storage :
                /\ sl \in DOMAIN c2.accounts[a].storage
                /\ c2.accounts[a].storage[sl] = c.accounts[a].storage[sl]
    /\ \A h \in DOMAIN c.contracts :
          h \in DOMAIN c2.contracts /\ c2.contracts[h] = c.contracts[h]
    /\ \A n \in DOMAIN c.block_hashes :
          n \in DOMAIN c2.block_hashes /\ c2.block_hashes[n] = c.block_hashes[n]

\* C29: a read never changes what the cache holds: after a basic, storage,
\* code_by_hash or block_hash, hit or miss, failed or not, every account info,
\* storage slot, bytecode and block hash the cache held before is still held,
\* with the same value; a failed read leaves the cache as it was.
C29_ReadsKeepStoredValues ==
    [][ (nops' # nops /\ ret'.op \in Reads) =>
            /\ KeepsValues(cached_reads, cached_reads')
            /\ ~ret'.ok => cached_reads' = cached_reads
      ]_vars

\* a storage read missed on a seeded account and fetched the slot: the cache
\* still holds the seeded info and the seeded slot, next to the new one
C29_Witness ==
    /\ ret.op = "storage" /\ ret.ok /\ ~ret.hit /\ ret.acc_hit
    /\ ret.db_calls # <<>>
    /\ ret.key[1] \in DOMAIN known.seeds
    /\ cached_reads.accounts[ret.key[1]].info = known.seeds[ret.key[1]].info
    /\ cached_reads.accounts[ret.key[1]].info # basic_ref(provider, ret.key[1])
    /\ DOMAIN cached_reads.accounts[ret.key[1]].storage = Slots
    /\ DOMAIN known.seeds[ret.key[1]].storage # {}

\* C34: a read fails only on a provider call of a cache miss; it then returns
\* the error and leaves the cache exactly as it was before the call, the
\* account of a storage read whose second provider call failed included; so
\* the same read, repeated on the cache as the failure left it, misses again
\* and starts with the same provider call.
C34_FailedReadLeavesCache ==
    [][ /\ (nops' # nops /\ ret'.op \in Reads /\ ~ret'.ok) =>
              /\ ret'.value = "error"
              /\ ~ret'.hit /\ ret'.db_calls # <<>>
              /\ Len(ret'.db_calls) = 2 =>
                    (ret'.op = "storage" /\ ~ret'.acc_hit
                     /\ ~HasAccount(cached_reads', ret'.key[1]))
              /\ cached_reads' = cached_reads
              /\ LET again == CallResult(cached_reads', provider, ret'.op, ret'.key, 0)
                 IN  /\ again.db_calls # <<>>
                     /\ again.db_calls[1] = ret'.db_calls[1]
        /\ (ret.op \in Reads /\ ~ret.ok /\ nops' # nops
            /\ ret'.op = ret.op /\ ret'.key = ret.key) =>
              /\ ~ret'.hit /\ ret'.db_calls # <<>>
              /\ ret'.db_calls[1] = ret.db_calls[1]
      ]_vars

\* a storage read of an account the cache does not hold failed on its second
\* provider call, after two reads that succeeded: the account is still not
\* in the cache
C34_Witness ==
    /\ ret.op = "storage" /\ ~ret.ok
    /\ Len(ret.db_calls) = 2
    /\ ~HasAccount(cached_reads, ret.key[1])
    /\ nops = 3
    /\ DOMAIN cached_reads.contracts # {} /\ DOMAIN cached_reads.block_hashes # {}

\* what the provider answers for the key of a read
ProviderValue(op, key) ==
    CASE op = "basic" -> basic_ref(provider, key[1])
      [] op = "storage" -> storage_ref(provider, key[1], key[2])
      [] op = "code_by_hash" -> code_by_hash_ref(provider, key[1])
      [] op = "block_hash" -> block_hash_ref(provider, key[1])

\* C35: the cache is transparent.  While no account was seeded with
\* insert_account, every entry of the cache holds what the provider answers
\* for its key, and every successful read of an account, a bytecode or a
\* block hash, hit or miss, returns what the provider returns for that key;
\* so does a storage read of an account the provider reports as existing.
C35_CacheTransparent ==
    known.seeds = EmptyMap =>
        /\ \A a \in DOMAIN cached_reads.accounts :
              /\ cached_reads.accounts[a].info = basic_ref(provider, a)
              /\ \A sl \in DOMAIN cached_reads.accounts[a].storage :
                    cached_reads.accounts[a].storage[sl] = storage_ref(provider, a, sl)
        /\ \A h \in DOMAIN cached_reads.contracts :
              cached_reads.contracts[h] = code_by_hash_ref(provider, h)
        /\ \A n \in DOMAIN cached_reads.block_hashes :
              cached_reads.block_hashes[n] = block_hash_ref(provider, n)
        /\ (ret.op \in Reads \ {"storage"} /\ ret.ok) =>
              ret.value = ProviderValue(ret.op, ret.key)
        /\ (ret.op = "storage" /\ ret.ok
            /\ basic_ref(provider, ret.key[1]) # NoAccount) =>
              ret.value = ProviderValue(ret.op, ret.key)

\* after three other reads and no seeding, a storage read of an existing
\* account is answered from the cache with the provider's non-zero value
C35_Witness ==
    /\ known.seeds = EmptyMap
    /\ nops = 4
    /\ ret.op = "storage" /\ ret.ok /\ ret.hit
    /\ basic_ref(provider, ret.key[1]) # NoAccount
    /\ ret.value = storage_ref(provider, ret.key[1], ret.key[2])
    /\ ret.value # 0
    /\ DOMAIN cached_reads.block_hashes # {}

\* the last operation was a successful storage read of an account the
\* provider reports absent, and nothing was seeded
AbsentStorageRead ==
    /\ known.seeds = EmptyMap
    /\ ret.op = "storage" /\ ret.ok
    /\ basic_ref(provider, ret.key[1]) = NoAccount

StorageCallOf(r) == <<"storage", r.key[1], r.key[2]>>

\* C36 as claimed: a storage read of an absent account returns zero without
\* asking the provider for the slot, whatever reads preceded it.
C36_AbsentStorageNeverAsksProvider ==
    AbsentStorageRead =>
        /\ ret.value = 0
        /\ StorageCallOf(ret) \notin Range(ret.db_calls)
        /\ cached_reads.accounts[ret.key[1]].info = NoAccount

\* C36, amended: a storage read of an absent account leaves the account in
\* the cache as known-absent.  When the cache did not hold the account, the
\* read asks the provider for the account only, returns zero and stores no
\* slot.  When the cache already held the account as absent (after a basic or
\* a storage read of that address), a read of a slot the cache does not hold
\* asks the provider for the slot, once, stores the answer and returns it;
\* later reads of that slot are answered from the cache.
C36_AbsentStorageByCacheState ==
    AbsentStorageRead =>
        /\ cached_reads.accounts[ret.key[1]].info = NoAccount
        /\ ~ret.acc_hit =>
              /\ ret.value = 0
              /\ ret.db_calls = <<<<"basic", ret.key[1]>>>>
              /\ cached_reads.accounts[ret.key[1]].storage = EmptyMap
        /\ (ret.acc_hit /\ ~ret.hit) =>
              /\ ret.db_calls = <<StorageCallOf(ret)>>
              /\ ret.value = storage_ref(provider, ret.key[1], ret.key[2])
              /\ HasSlot(cached_reads, ret.key[1], ret.key[2])
              /\ cached_reads.accounts[ret.key[1]].storage[ret.key[2]] = ret.value
        /\ ret.hit =>
              /\ ret.db_calls = <<>>
              /\ ret.value = cached_reads.accounts[ret.key[1]].storage[ret.key[2]]

\* the account was cached as absent, and the storage read asked the provider
\* for the slot and stored the answer
C36_Witness ==
    /\ AbsentStorageRead
    /\ ret.acc_hit /\ ~ret.hit
    /\ ret.db_calls = <<StorageCallOf(ret)>>
    /\ HasSlot(cached_reads, ret.key[1], ret.key[2])

Untagged(db_calls) ==
    [n \in 1..Len(db_calls) |->
        IF db_calls[n][1] = "basic" THEN <<"basic", db_calls[n][2][2]>>
        ELSE IF db_calls[n][1] = "storage"
             THEN <<"storage", db_calls[n][2][2], db_calls[n][3]>>
             ELSE <<db_calls[n][1], db_calls[n][3]>>]

\* C37: for one chain id X the two caches are equivalent.  After any sequence
\* of reads and insert_account calls run on both over the same provider, each
\* operation has returned the same result (value or error) on both and made
\* the same provider calls, in number and in key, and the chain-qualified
\* cache is to_sync_cached_reads(plain cache, X).
C37_PlainAndChainQualifiedAgree ==
    /\ sync_cached_reads = to_sync_cached_reads(cached_reads, provider.chain)
    /\ conv.op = ret.op /\ conv.key = ret.key
    /\ conv.ok = ret.ok
    /\ conv.value = ret.value
    /\ Len(conv.db_calls) = Len(ret.db_calls)
    /\ Untagged(conv.db_calls) = ret.db_calls

\* both caches hold a seeded account, a fetched slot of it, a bytecode of the
\* chain and the known absence of the other account, and the last read made
\* one provider call on each side
C37_Witness ==
    /\ nops = 4
    /\ \E a \in Addresses :
          /\ HasAccount(cached_reads, a) /\ cached_reads.accounts[a].info = "q"
          /\ <<provider.chain, a>> \in DOMAIN sync_cached_reads.accounts
    /\ \E a \in Addresses :
          /\ HasAccount(cached_reads, a) /\ cached_reads.accounts[a].info = NoAccount
    /\ DOMAIN sync_cached_reads.contracts # {}
    /\ ret.op = "storage" /\ ret.ok /\ Len(ret.db_calls) = 1
    /\ conv.value = ret.value
    /\ sync_cached_reads = to_sync_cached_reads(cached_reads, provider.chain)

(***************************************************************************)
(* Properties of Rollup::start (SpecRollup).                               *)
(***************************************************************************)
\* the calls start() made for the k-th notification, in order
CallsFor(k) ==
    LET made == SelectSeq(rollup.log, LAMBDA e : e.n = k)
    IN  [i \in 1..Len(made) |-> made[i].call]

\* the calls start() makes for a notification it processes to the end
CallsOf(notification) ==
    (IF notification.reverted = None THEN <<>> ELSE <<"revert">>)
    \o (IF notification.committed = None THEN <<>> ELSE <<"commit", "send">>)

IsPrefix(s, t) == Len(s) <= Len(t) /\ s = SubSeq(t, 1, Len(s))

\* the k-th notification has been processed to the end
Processed(k) ==
    \/ k < Len(rollup.received)
    \/ k = Len(rollup.received) /\ (rollup.pc = "recv" \/ rollup.result = "Ok")

\* the FinishedHeight events sent for the k-th notification
EventsFor(k) == {i \in 1..Len(rollup.events) : rollup.events[i].n = k}

\* C40: in Rollup::start, for every notification the reverted chain is
\* processed before the committed chain; FinishedHeight with the committed
\* chain's tip number is sent once for every notification with a committed
\* chain that is processed to the end, and never for another, only directly
\* after that notification's commit returned Ok; a block execution that
\* fails inside commit leaves commit's result Ok; an error of commit or of
\* the send ends the loop with that error, with no call made after the
\* failing one, and once start has ended nothing more is received or done.
C40_RollupStartOrder ==
    /\ [](/\ \A i \in 1..Len(rollup.log) : \A j \in 1..Len(rollup.log) :
                i < j => rollup.log[i].n <= rollup.log[j].n
          /\ \A k \in 1..Len(rollup.received) :
                /\ IsPrefix(CallsFor(k), CallsOf(rollup.received[k]))
                /\ Processed(k) => CallsFor(k) = CallsOf(rollup.received[k])
                /\ Cardinality(EventsFor(k)) <= 1
                /\ Processed(k) =>
                      Cardinality(EventsFor(k)) =
                          IF rollup.received[k].committed = None THEN 0 ELSE 1
                /\ \A i \in EventsFor(k) :
                      rollup.events[i].FinishedHeight =
                          rollup.received[k].committed[1]
          /\ Len(rollup.events) =
                Cardinality({i \in 1..Len(rollup.log) :
                                rollup.log[i].call = "send" /\ rollup.log[i].result = "Ok"})
          /\ \A i \in 1..Len(rollup.log) :
                /\ rollup.log[i].call = "send" =>
                      /\ i > 1
                      /\ rollup.log[i - 1].call = "commit"
                      /\ rollup.log[i - 1].n = rollup.log[i].n
                      /\ rollup.log[i - 1].result = "Ok"
                /\ rollup.log[i].call = "commit" =>
                      (rollup.log[i].result = "Ok" <=>
                          rollup.log[i].outcomes \subseteq
                              {"executed", "execute_failed"})
                /\ rollup.log[i].result # "Ok" =>
                      /\ i = Len(rollup.log)
                      /\ rollup.pc = "done"
                      /\ rollup.result =
                            CASE rollup.log[i].result = "panic" -> "panic"
                              [] rollup.log[i].call = "commit" -> "Err:commit"
                              [] rollup.log[i].call = "send" -> "Err:send"
                              [] OTHER -> "Err:revert"
          /\ rollup.result # "running" <=> rollup.pc = "done"
          /\ rollup.result \notin {"running", "Ok"} =>
                /\ rollup.log # <<>>
                /\ rollup.log[Len(rollup.log)].result # "Ok"
                /\ rollup.log[Len(rollup.log)].n = Len(rollup.received))
    /\ [][rollup.result # "running" => rollup' = rollup]_vars

\* a reorg whose commit logged a failed block execution was reported with
\* its tip; the commit of the next notification returned an error, which
\* ended the loop with one event sent
C40_Witness ==
    /\ Len(rollup.received) = 2
    /\ rollup.received[1].reverted # None /\ rollup.received[1].committed # None
    /\ CallsFor(1) = <<"revert", "commit", "send">>
    /\ "execute_failed" \in rollup.log[2].outcomes
    /\ rollup.events = <<[FinishedHeight |-> rollup.received[1].committed[1], n |-> 1]>>
    /\ rollup.received[2].committed # None
    /\ rollup.result = "Err:commit"
    /\ CallsFor(2) \in {<<"commit">>, <<"revert", "commit">>}

(***************************************************************************)
(* Properties of the cache across an attempt (SpecReturn).                 *)
(***************************************************************************)
\* C30: the cache that an Aborted or a Better outcome carries is the cache the
\* attempt was given, as the attempt's reads left it: every account info,
\* storage slot, bytecode and block hash it held at the start is in it with
\* the same value, and every other entry of it holds what the provider
\* answered to a call made during the attempt for that key.  The other
\* outcomes carry no cache.
C30_ReturnedCacheIsPassedInGrown ==
    /\ attempt.outcome.kind \in {"Aborted", "Better"} =>
          /\ attempt.outcome.cached_reads = Some(cached_reads)
          /\ KeepsValues(attempt.args_cached_reads, cached_reads)
          /\ \A a \in DOMAIN cached_reads.accounts \ DOMAIN attempt.args_cached_reads.accounts :
                /\ <<"basic", a>> \in attempt.db_calls
                /\ cached_reads.accounts[a].info = basic_ref(provider, a)
          /\ \A k \in CachedSlots(cached_reads) \ CachedSlots(attempt.args_cached_reads) :
                /\ <<"storage", k[1], k[2]>> \in attempt.db_calls
                /\ cached_reads.accounts[k[1]].storage[k[2]] =
                       storage_ref(provider, k[1], k[2])
          /\ \A h \in DOMAIN cached_reads.contracts \ DOMAIN attempt.args_cached_reads.contracts :
                /\ <<"code", h>> \in attempt.db_calls
                /\ cached_reads.contracts[h] = code_by_hash_ref(provider, h)
          /\ \A n \in DOMAIN cached_reads.block_hashes
                        \ DOMAIN attempt.args_cached_reads.block_hashes :
                /\ <<"block_hash", n>> \in attempt.db_calls
                /\ cached_reads.block_hashes[n] = block_hash_ref(provider, n)
    /\ attempt.outcome.kind \notin {"Aborted", "Better"} =>
          attempt.outcome.cached_reads = None

\* a Better outcome carries a cache that was given with an account the
\* provider does not have, and that two reads of the attempt extended
C30_Witness ==
    /\ attempt.outcome.kind = "Better"
    /\ attempt.outcome.cached_reads = Some(cached_reads)
    /\ \E a \in DOMAIN attempt.args_cached_reads.accounts :
          /\ attempt.args_cached_reads.accounts[a].info # basic_ref(provider, a)
          /\ cached_reads.accounts[a] # attempt.args_cached_reads.accounts[a]
    /\ attempt.args_cached_reads.contracts # EmptyMap
    /\ Cardinality(attempt.db_calls) >= 2
    /\ cached_reads # attempt.args_cached_reads

(***************************************************************************)
(* Properties of the conversions (SpecConv).                               *)
(***************************************************************************)
\* the entries of the map m whose key carries chain_id, under the plain keys
OnlyChain(m, chain_id) ==
    [x \in {k[2] : k \in {q \in DOMAIN m : q[1] = chain_id}} |-> m[<<chain_id, x>>]]

\* the chain ids the keys of a chain-qualified cache carry
ChainsOf(sync) ==
    {k[1] : k \in DOMAIN sync.accounts \cup DOMAIN sync.contracts
                  \cup DOMAIN sync.block_hashes}

\* C11: the plain cache that `from` returns for the chain-qualified cache that
\* to_sync_cached_reads made of a plain cache c and a chain id is equal to c:
\* the same accounts with the same info and storage, the same contracts, the
\* same block hashes.
C11_RoundTrip ==
    (conv.op = "from" /\ conv.round_trip) => cached_reads = conv.origin

\* a cache of two accounts, one of them absent, a bytecode and a block hash
\* went through both conversions with chain id 2
C11_Witness ==
    /\ conv.op = "from" /\ conv.round_trip
    /\ conv.chain_id = 2
    /\ DOMAIN conv.origin.accounts = Addresses
    /\ \E a \in Addresses : conv.origin.accounts[a].storage # EmptyMap
    /\ \E a \in Addresses : conv.origin.accounts[a].info = NoAccount
    /\ conv.origin.contracts # EmptyMap
    /\ conv.origin.block_hashes # EmptyMap
    /\ cached_reads = conv.origin

\* C12 as claimed: the plain cache that `from` returns holds exactly the
\* entries of one chain id of the chain-qualified cache and none of another's.
C12_ProjectsOneChain ==
    conv.op = "from" =>
        \E chain_id \in ChainIds :
            /\ cached_reads.accounts = OnlyChain(conv.src.accounts, chain_id)
            /\ cached_reads.contracts = OnlyChain(conv.src.contracts, chain_id)
            /\ cached_reads.block_hashes = OnlyChain(conv.src.block_hashes, chain_id)


(***************************************************************************)
(* Properties of the adapter's RefCell (SpecBorrow).                       *)
(***************************************************************************)
\* C13: at most one guard of the adapter's RefCell is live at any time, in the
\* adapter's calls and in the state-root borrow of the build alike; a
\* borrow_mut() attempted while a guard is live panics at once, leaves the
\* cache as it was when the call in progress began, and leaves no guard live;
\* and a call that holds the guard can always return.
C13_SingleBorrow ==
    /\ borrows <= 1
    /\ borrows = 1 <=> call.phase \in {"in_call", "state_root"}
    /\ call.second_attempt =>
          /\ call.phase = "panicked"
          /\ borrows = 0
          /\ cached_reads = call.before
    /\ call.phase = "in_call" => ENABLED RefReturn
    /\ call.phase = "state_root" => ENABLED StateRootRelease

\* a storage read that was asking the provider for an account the cache did
\* not hold was re-entered, after earlier calls had filled the cache
C13_Witness ==
    /\ call.phase = "panicked"
    /\ call.op = "storage"
    /\ call.second_attempt
    /\ cached_reads.accounts # EmptyMap
    /\ ~HasAccount(cached_reads, call.key[1])

=============================================================================
